---- MODULE Spec2Model ----
(***************************************************************************)
(* Reservation slot allocator and its entity caches (isupipe, Go).         *)
(*                                                                         *)
(* The model follows reserveLivestreamHandler (src/go/main.go:397-513)     *)
(* statement by statement.  Every database statement and every cache call  *)
(* of the handler is one step of a request, so that concurrent requests    *)
(* interleave exactly where goroutines serving two HTTP requests can.      *)
(*                                                                         *)
(* Time is counted in hours: a slot row is [t, t+1).  Database semantics   *)
(* are those of MySQL/InnoDB: a statement run on the connection pool       *)
(* (dbConn) is its own auto-committed transaction, so the row locks of a   *)
(* SELECT ... FOR UPDATE issued on dbConn end with the statement; the row  *)
(* locks of an UPDATE issued on a transaction (tx) last until that         *)
(* transaction commits or rolls back.                                      *)
(***************************************************************************)
EXTENDS Integers, FiniteSets, Sequences, TLC

\* ---------------------------------------------------------------- bounds
NumSlots == 2
Capacity == 1
NumReqs  == 2
NumUsers == 2
NumTags  == 1
NumProcs == 2
NumNames == 2
NumPasswords == 1
NumImages == 1
MaxUserId == 2
MaxLivecomments == 1

\* ------------------------------------------------------ program constants
\* Start of the reservable term (hours), end of the term.
TermStartAt == 1
TermEndAt   == TermStartAt + NumSlots

Reqs  == 1..NumReqs
Users == 1..NumUsers
Tags  == 1..NumTags
\* Request times reach one hour before and one hour after the term.
Times == (TermStartAt - 1)..(TermEndAt + 1)

\* A slot row is identified by its start_at; its end_at is start_at + 1.
SlotIds == TermStartAt..(TermEndAt - 1)
SlotStartAt(s) == s
SlotEndAt(s)   == s + 1

\* The reservation_slots table as the initial data set leaves it: one row
\* per hour of the term, each with the same capacity.
InitialSlots == [s \in SlotIds |-> Capacity]

VARIABLES
    slot,                         \* reservation_slots.slot, committed value per row
    livestreams,                  \* committed rows of table livestreams
    livestream_tags,              \* committed rows of table livestream_tags
    nextId,                       \* AUTO_INCREMENT counter of livestreams
    livestreamModelByIdCache,     \* id -> LivestreamModel
    livestreamModelByUserIDCache, \* user id -> sequence of LivestreamModel
    pc,                           \* position of each request in the handler
    req,                          \* the decoded request and the session's user
    slots,                        \* local: rows returned by SELECT ... FOR UPDATE
    txLocks,                      \* rows the request's transaction has updated and holds locked
    livestreamModel,              \* local: the model being inserted (ID 0 until assigned)
    txRow,                        \* the livestreams row inserted by the request's transaction
    livestreamModelsByUserID,     \* local: list read from the by-owner cache
    result,                       \* the handler's response
    touched,                      \* history: the request issued a storage or cache operation
    decremented,                  \* history: rows whose committed capacity the request lowered
    cacheWrites,                  \* history: cache families the request wrote
    users,                        \* committed rows of table users
    themes,                       \* committed rows of table themes
    tags,                         \* rows of table tags
    icons,                        \* icon files: user id -> image
    nextUserId,                   \* AUTO_INCREMENT counter of users
    userModelByIdCache,           \* user id -> UserModel
    userModelByNameCache,         \* user name -> UserModel
    themeCache,                   \* user name -> Theme
    hashCache,                    \* user name -> icon hash
    tagModelCache,                \* tag id -> TagModel
    livecomments,                 \* rows of table livecomments
    ng_words,                     \* rows of table ng_words
    nextLivecommentId,            \* AUTO_INCREMENT counter of livecomments
    h,                            \* the handlers other than the reservation handler, one per process
    obs                           \* history: what a caller of the cache observed

vars == <<slot, livestreams, livestream_tags, nextId, livestreamModelByIdCache,
          livestreamModelByUserIDCache, pc, req, slots, txLocks, livestreamModel,
          txRow, livestreamModelsByUserID, result, touched, decremented, cacheWrites,
          users, themes, tags, icons, nextUserId, userModelByIdCache,
          userModelByNameCache, themeCache, hashCache, tagModelCache,
          livecomments, ng_words, nextLivecommentId, h, obs>>

\* The reservation handler's variables, and everything else.
reserveVars == <<slot, livestream_tags, nextId, pc, req, slots, txLocks, livestreamModel,
                 txRow, livestreamModelsByUserID, result, touched, decremented, cacheWrites>>
svcVars == <<users, themes, tags, icons, nextUserId, userModelByIdCache,
             userModelByNameCache, themeCache, hashCache, tagModelCache,
          livecomments, ng_words, nextLivecommentId, h, obs>>

dbVars    == <<slot, livestreams, livestream_tags>>
cacheVars == <<livestreamModelByIdCache, livestreamModelByUserIDCache>>

\* ------------------------------------------------------------ EntityCache
\* A cache is a finite map; absent keys are outside its domain.
EmptyCache == [k \in {} |-> 0]
CacheHas(c, k) == k \in DOMAIN c
CacheGet(c, k) == c[k]
CacheSet(c, k, v) == [x \in (DOMAIN c) \cup {k} |-> IF x = k THEN v ELSE c[x]]
CacheDelete(c, k) == [x \in (DOMAIN c) \ {k} |-> c[x]]
\* All(): the values of the cache as a sequence, one element per entry.
RECURSIVE CacheAll(_)
CacheAll(c) ==
    IF DOMAIN c = {} THEN <<>>
    ELSE LET k == CHOOSE x \in DOMAIN c : TRUE
         IN  <<c[k]>> \o CacheAll([x \in (DOMAIN c) \ {k} |-> c[x]])

\* ------------------------------------------------------------- SlotCalendar
\* Variant of the range predicate with the two comparisons turned around.
SlotsInRangeSwapped(startAt, endAt) ==
    {s \in SlotIds : SlotStartAt(s) <= startAt /\ SlotEndAt(s) >= endAt}

\* WHERE start_at >= ? AND end_at <= ?
SlotsInRange(startAt, endAt) ==
    {s \in SlotIds : SlotStartAt(s) >= startAt /\ SlotEndAt(s) <= endAt}

\* Rows locked by transactions other than r's.
LockedByOthers(r) == UNION {txLocks[o] : o \in Reqs \ {r}}

\* SELECT COUNT(*) ... WHERE (start_at = a AND end_at = b AND slot > 0) OR ...
CountAvailable(rows) == Cardinality({s \in rows : slot[s] > 0})

NoModel == [ID |-> 0, UserID |-> 0, StartAt |-> 0, EndAt |-> 0]
NoReq   == [UserID |-> 0, StartAt |-> 0, EndAt |-> 0, Tags |-> {}]

\* ------------------------------------------------------ users, themes, icons
Procs     == 1..NumProcs
Names     == 1..NumNames
Passwords == 1..NumPasswords
\* Passwords a login may present: those in use and one nobody registered.
LoginPasswords == Passwords \cup {NumPasswords + 1}
Images    == 1..NumImages
UserIds   == 1..MaxUserId

\* The user name registerHandler refuses.
PipeName == 0
\* The image served for a user without an icon file (NoImage.jpg).
FallbackImage == 0

\* bcrypt.GenerateFromPassword and bcrypt.CompareHashAndPassword.
Bcrypt(password) == <<"bcrypt", password>>
CompareHashAndPassword(hashed, password) == hashed = Bcrypt(password)

\* sha256.Sum256 of an image.
Sha256(image) == <<"sha256", image>>
fallbackImageHash == Sha256(FallbackImage)

NoUser  == [ID |-> 0, Name |-> 0, HashedPassword |-> <<>>]
NoTheme == [UserID |-> 0, DarkMode |-> FALSE]

\* The tables as the initial data set leaves them: one user with its theme and
\* no icon file, and the tags.
InitialUsers  == {[ID |-> 1, Name |-> 1, HashedPassword |-> Bcrypt(1)]}
InitialThemes == {[UserID |-> u.ID, DarkMode |-> FALSE] : u \in InitialUsers}
InitialTags   == {[ID |-> t, Name |-> t] : t \in Tags}

\* A handler process at rest.
Idle == [op |-> "idle", pc |-> "idle", name |-> 0, password |-> 0, darkMode |-> FALSE,
         image |-> 0, user |-> NoUser, theme |-> NoTheme, hash |-> <<>>, res |-> 0,
         userModels |-> {}, themeMap |-> <<>>, iconHashMap |-> <<>>, misses |-> {},
         writing |-> {}, raced |-> FALSE,
         images |-> <<>>, tagModels |-> {}, livestream |-> NoModel, comment |-> <<>>,
         stage |-> 0, missed |-> "", existed |-> FALSE,
         word |-> <<>>, ngwords |-> {}, deleted |-> {},
         all |-> <<>>, tagList |-> <<>>, snap |-> <<>>]


\* The reservation handler's tables and requests before any request.
ReserveInit ==
    /\ slot = InitialSlots
    /\ livestreams = {}
    /\ livestream_tags = {}
    /\ nextId = 1
    /\ livestreamModelByIdCache = EmptyCache
    /\ livestreamModelByUserIDCache = EmptyCache
    /\ pc = [r \in Reqs |-> "idle"]
    /\ req = [r \in Reqs |-> NoReq]
    /\ slots = [r \in Reqs |-> {}]
    /\ txLocks = [r \in Reqs |-> {}]
    /\ livestreamModel = [r \in Reqs |-> NoModel]
    /\ txRow = [r \in Reqs |-> NoModel]
    /\ livestreamModelsByUserID = [r \in Reqs |-> <<>>]
    /\ result = [r \in Reqs |-> "none"]
    /\ touched = [r \in Reqs |-> FALSE]
    /\ decremented = [r \in Reqs |-> {}]
    /\ cacheWrites = [r \in Reqs |-> {}]

Init ==
    /\ ReserveInit
    /\ users = InitialUsers
    /\ themes = InitialThemes
    /\ tags = InitialTags
    /\ icons = EmptyCache
    /\ nextUserId = Cardinality(InitialUsers) + 1
    /\ userModelByIdCache = [i \in {u.ID : u \in InitialUsers} |->
                                 CHOOSE u \in InitialUsers : u.ID = i]
    /\ userModelByNameCache = [n \in {u.Name : u \in InitialUsers} |->
                                   CHOOSE u \in InitialUsers : u.Name = n]
    /\ themeCache = EmptyCache
    /\ hashCache = EmptyCache
    /\ tagModelCache = [i \in {g.ID : g \in InitialTags} |->
                            CHOOSE g \in InitialTags : g.ID = i]
    /\ livecomments = {}
    /\ ng_words = {}
    /\ nextLivecommentId = 1
    /\ h = [p \in Procs |-> Idle]
    /\ obs = <<>>

\* Variant of the return path without the deferred rollback: the transaction
\* of a failed request stays open and keeps its row locks.
ReturnNoRollback(r, res) ==
    /\ pc' = [pc EXCEPT ![r] = "done"]
    /\ result' = [result EXCEPT ![r] = res]
    /\ txLocks' = [txLocks EXCEPT ![r] = IF res = "StorageFailure" THEN @ ELSE {}]

\* The handler returns: the deferred tx.Rollback() releases the transaction's
\* locks and discards its uncommitted writes.
Return(r, res) ==
    /\ pc' = [pc EXCEPT ![r] = "done"]
    /\ result' = [result EXCEPT ![r] = res]
    /\ txLocks' = [txLocks EXCEPT ![r] = {}]

\* A request arrives with a valid session and a decodable body.
Request(r) ==
    /\ pc[r] = "idle"
    /\ \E u \in Users, s \in Times, e \in Times, t \in SUBSET Tags :
          req' = [req EXCEPT ![r] = [UserID |-> u, StartAt |-> s, EndAt |-> e, Tags |-> t]]
    /\ pc' = [pc EXCEPT ![r] = "Validating"]
    /\ UNCHANGED <<svcVars, dbVars, nextId, cacheVars, slots, txLocks, livestreamModel,
                   txRow, livestreamModelsByUserID, result, touched, decremented, cacheWrites>>

\* Variant of the term check that compares with After/Before only.
BadRangeStrict(startAt, endAt) ==
    \/ startAt > TermEndAt
    \/ endAt < TermStartAt

\* The term check of the handler.
BadRange(startAt, endAt) ==
    \/ (startAt = TermEndAt \/ startAt > TermEndAt)
    \/ (endAt = TermStartAt \/ endAt < TermStartAt)

Validate(r) ==
    /\ pc[r] = "Validating"
    /\ IF BadRange(req[r].StartAt, req[r].EndAt)
       THEN Return(r, "OutOfRange")
       ELSE /\ pc' = [pc EXCEPT ![r] = "Locking"]
            /\ UNCHANGED <<result, txLocks>>
    /\ UNCHANGED <<svcVars, dbVars, nextId, cacheVars, req, slots, livestreamModel,
                   txRow, livestreamModelsByUserID, touched, decremented, cacheWrites>>

\* SELECT * FROM reservation_slots WHERE start_at >= ? AND end_at <= ? FOR UPDATE,
\* run on dbConn: it waits while another transaction holds one of the rows,
\* and its own locks end with the statement.  The statement fails when the
\* request context is cancelled or the lock wait times out.
SelectForUpdate(r) ==
    /\ pc[r] = "Locking"
    /\ touched' = [touched EXCEPT ![r] = TRUE]
    /\ \/ /\ SlotsInRange(req[r].StartAt, req[r].EndAt) \cap LockedByOthers(r) = {}
          /\ slots' = [slots EXCEPT ![r] = SlotsInRange(req[r].StartAt, req[r].EndAt)]
          /\ pc' = [pc EXCEPT ![r] = "Checking"]
          /\ UNCHANGED <<result, txLocks>>
       \/ /\ Return(r, "StorageFailure")
          /\ UNCHANGED slots
    /\ UNCHANGED <<svcVars, dbVars, nextId, cacheVars, req, livestreamModel, txRow,
                   livestreamModelsByUserID, decremented, cacheWrites>>

\* The admission test: count < 1 rejects.
Rejects(count) == count < 1

\* Variant that leaves the owner out of the new model.
NewModelNoOwner(q) ==
    [ID |-> 0, UserID |-> 0, StartAt |-> q.StartAt, EndAt |-> q.EndAt]

\* The model built from the request and the session's user.
NewModel(q) == [ID |-> 0, UserID |-> q.UserID, StartAt |-> q.StartAt, EndAt |-> q.EndAt]

\* Variant of the admission step in which the decrement is issued on dbConn
\* ahead of the count, so that a rejected request has already lowered the rows.
CountQueryAfterUpdate(r) ==
    /\ pc[r] = "Checking"
    /\ \/ /\ slots[r] = {}
          /\ Return(r, "StorageFailure")
          /\ UNCHANGED <<livestreamModel, dbVars, decremented>>
       \/ /\ slots[r] # {}
          /\ \/ /\ Return(r, "StorageFailure")
                /\ UNCHANGED <<livestreamModel, dbVars, decremented>>
             \/ /\ Rejects(CountAvailable(slots[r]))
                /\ Return(r, "Overbooked")
                /\ slot' = [s \in SlotIds |-> IF s \in slots[r] THEN slot[s] - 1 ELSE slot[s]]
                /\ decremented' = [decremented EXCEPT ![r] = slots[r]]
                /\ UNCHANGED <<livestreamModel, livestreams, livestream_tags>>
             \/ /\ ~Rejects(CountAvailable(slots[r]))
                /\ livestreamModel' = [livestreamModel EXCEPT ![r] = NewModel(req[r])]
                /\ pc' = [pc EXCEPT ![r] = "Beginning"]
                /\ UNCHANGED <<result, txLocks, dbVars, decremented>>
    /\ UNCHANGED <<svcVars, nextId, cacheVars, req, slots, txRow,
                   livestreamModelsByUserID, touched, cacheWrites>>

\* SELECT COUNT(*) over the OR of one condition per selected row, run on
\* dbConn as a plain read of committed data.  With no selected row the query
\* text ends in "WHERE " and the statement fails.
CountQuery(r) ==
    /\ pc[r] = "Checking"
    /\ \/ /\ slots[r] = {}
          /\ Return(r, "StorageFailure")
          /\ UNCHANGED livestreamModel
       \/ /\ slots[r] # {}
          /\ \/ /\ Return(r, "StorageFailure")
                /\ UNCHANGED livestreamModel
             \/ /\ Rejects(CountAvailable(slots[r]))
                /\ Return(r, "Overbooked")
                /\ UNCHANGED livestreamModel
             \/ /\ ~Rejects(CountAvailable(slots[r]))
                /\ livestreamModel' = [livestreamModel EXCEPT ![r] = NewModel(req[r])]
                /\ pc' = [pc EXCEPT ![r] = "Beginning"]
                /\ UNCHANGED <<result, txLocks>>
    /\ UNCHANGED <<svcVars, dbVars, nextId, cacheVars, req, slots, txRow,
                   livestreamModelsByUserID, touched, decremented, cacheWrites>>

\* dbConn.BeginTxx
BeginTx(r) ==
    /\ pc[r] = "Beginning"
    /\ \/ /\ pc' = [pc EXCEPT ![r] = "Updating"]
          /\ UNCHANGED <<result, txLocks>>
       \/ Return(r, "StorageFailure")
    /\ UNCHANGED <<svcVars, dbVars, nextId, cacheVars, req, slots, livestreamModel, txRow,
                   livestreamModelsByUserID, touched, decremented, cacheWrites>>

\* The UPDATE over the given rows inside tx.  It takes the rows' locks one row
\* at a time in index order, waiting while another transaction holds the next
\* one, and tx holds every lock taken until it ends.  The statement fails when
\* the request context is cancelled or the lock wait times out; the locks it
\* took so far stay with tx until the deferred rollback.
UpdateRows(r, rows) ==
    /\ pc[r] = "Updating"
    /\ LET want == rows \ txLocks[r]
       IN  \/ /\ want = {}
              /\ pc' = [pc EXCEPT ![r] = "Inserting"]
              /\ UNCHANGED <<result, txLocks>>
           \/ /\ want # {}
              /\ LET s == CHOOSE x \in want : \A y \in want : x <= y
                 IN  /\ s \notin LockedByOthers(r)
                     /\ txLocks' = [txLocks EXCEPT ![r] = @ \cup {s}]
                     /\ pc' = [pc EXCEPT ![r] =
                                  IF want = {s} THEN "Inserting" ELSE "Updating"]
              /\ UNCHANGED result
           \/ Return(r, "StorageFailure")
    /\ UNCHANGED <<svcVars, dbVars, nextId, cacheVars, req, slots, livestreamModel, txRow,
                   livestreamModelsByUserID, touched, decremented, cacheWrites>>

\* Variant of the UPDATE whose WHERE clause compares with > and <.
UpdateSlotsStrict(r) ==
    UpdateRows(r, {s \in SlotIds : SlotStartAt(s) > req[r].StartAt
                                   /\ SlotEndAt(s) < req[r].EndAt})

\* UPDATE reservation_slots SET slot = slot - 1 WHERE start_at >= ? AND end_at <= ?
UpdateSlots(r) == UpdateRows(r, SlotsInRange(req[r].StartAt, req[r].EndAt))

\* Variant that leaves the generated id out of the model.
WithIDUnassigned(m, id) == m

\* livestreamModel.ID = livestreamID
WithID(m, id) == [m EXCEPT !.ID = id]

\* Variant that runs the INSERT on dbConn instead of tx: the row is committed
\* with the statement.
InsertLivestreamOnDbConn(r) ==
    /\ pc[r] = "Inserting"
    /\ \/ /\ txRow' = [txRow EXCEPT ![r] = [livestreamModel[r] EXCEPT !.ID = nextId]]
          /\ nextId' = nextId + 1
          /\ livestreams' = livestreams \cup {[livestreamModel[r] EXCEPT !.ID = nextId]}
          /\ \/ /\ livestreamModel' = [livestreamModel EXCEPT ![r] = WithID(@, nextId)]
                /\ pc' = [pc EXCEPT ![r] = "CacheById"]
                /\ UNCHANGED <<result, txLocks>>
             \/ /\ Return(r, "StorageFailure")
                /\ UNCHANGED livestreamModel
       \/ /\ Return(r, "StorageFailure")
          /\ UNCHANGED <<txRow, nextId, livestreamModel, livestreams>>
    /\ UNCHANGED <<svcVars, slot, livestream_tags, cacheVars, req, slots,
                   livestreamModelsByUserID, touched, decremented, cacheWrites>>

\* INSERT INTO livestreams inside tx, then rs.LastInsertId().  The generated
\* id is consumed even when the transaction later rolls back.
InsertLivestream(r) ==
    /\ pc[r] = "Inserting"
    /\ \/ /\ txRow' = [txRow EXCEPT ![r] = [livestreamModel[r] EXCEPT !.ID = nextId]]
          /\ nextId' = nextId + 1
          /\ \/ /\ livestreamModel' = [livestreamModel EXCEPT ![r] = WithID(@, nextId)]
                /\ pc' = [pc EXCEPT ![r] = "CacheById"]
                /\ UNCHANGED <<result, txLocks>>
             \/ /\ Return(r, "StorageFailure")
                /\ UNCHANGED livestreamModel
       \/ /\ Return(r, "StorageFailure")
          /\ UNCHANGED <<txRow, nextId, livestreamModel>>
    /\ UNCHANGED <<svcVars, dbVars, cacheVars, req, slots,
                   livestreamModelsByUserID, touched, decremented, cacheWrites>>

\* livestreamModelByIdCache.Set(livestreamID, *livestreamModel)
CacheSetById(r) ==
    /\ pc[r] = "CacheById"
    /\ livestreamModelByIdCache' =
           CacheSet(livestreamModelByIdCache, txRow[r].ID, livestreamModel[r])
    /\ cacheWrites' = [cacheWrites EXCEPT ![r] = @ \cup {"livestream-by-id"}]
    /\ pc' = [pc EXCEPT ![r] = "CacheGetByUser"]
    /\ UNCHANGED <<svcVars, dbVars, nextId, livestreamModelByUserIDCache, req, slots, txLocks,
                   livestreamModel, txRow, livestreamModelsByUserID, result, touched,
                   decremented>>

\* livestreamModelsByUserID, ok := livestreamModelByUserIDCache.Get(UserID);
\* a miss gives the empty list.
CacheGetByUser(r) ==
    /\ pc[r] = "CacheGetByUser"
    /\ livestreamModelsByUserID' = [livestreamModelsByUserID EXCEPT ![r] =
           IF CacheHas(livestreamModelByUserIDCache, livestreamModel[r].UserID)
           THEN CacheGet(livestreamModelByUserIDCache, livestreamModel[r].UserID)
           ELSE <<>>]
    /\ pc' = [pc EXCEPT ![r] = "CacheSetByUser"]
    /\ UNCHANGED <<svcVars, dbVars, nextId, cacheVars, req, slots, txLocks, livestreamModel,
                   txRow, result, touched, decremented, cacheWrites>>

\* append, then livestreamModelByUserIDCache.Set(UserID, list)
CacheSetByUser(r) ==
    /\ pc[r] = "CacheSetByUser"
    /\ livestreamModelByUserIDCache' =
           CacheSet(livestreamModelByUserIDCache, livestreamModel[r].UserID,
                    Append(livestreamModelsByUserID[r], livestreamModel[r]))
    /\ cacheWrites' = [cacheWrites EXCEPT ![r] = @ \cup {"livestreams-by-owner"}]
    /\ pc' = [pc EXCEPT ![r] = "Tagging"]
    /\ UNCHANGED <<svcVars, dbVars, nextId, livestreamModelByIdCache, req, slots, txLocks,
                   livestreamModel, txRow, livestreamModelsByUserID, result, touched,
                   decremented>>

\* INSERT INTO livestream_tags inside tx, skipped when the request has no tag.
InsertTags(r) ==
    /\ pc[r] = "Tagging"
    /\ \/ /\ pc' = [pc EXCEPT ![r] = "Committing"]
          /\ UNCHANGED <<result, txLocks>>
       \/ /\ req[r].Tags # {}
          /\ Return(r, "StorageFailure")
    /\ UNCHANGED <<svcVars, dbVars, nextId, cacheVars, req, slots, livestreamModel, txRow,
                   livestreamModelsByUserID, touched, decremented, cacheWrites>>

\* tx.Commit(): the transaction's writes become the committed data and its
\* locks are released.
Commit(r) ==
    /\ pc[r] = "Committing"
    /\ \/ /\ slot' = [s \in SlotIds |-> IF s \in txLocks[r] THEN slot[s] - 1 ELSE slot[s]]
          /\ livestreams' = livestreams \cup {txRow[r]}
          /\ livestream_tags' = livestream_tags \cup
                 {[LivestreamID |-> txRow[r].ID, TagID |-> t] : t \in req[r].Tags}
          /\ decremented' = [decremented EXCEPT ![r] = txLocks[r]]
          /\ txLocks' = [txLocks EXCEPT ![r] = {}]
          /\ pc' = [pc EXCEPT ![r] = "Filling"]
          /\ UNCHANGED result
       \/ /\ Return(r, "StorageFailure")
          /\ UNCHANGED <<dbVars, decremented>>
    /\ UNCHANGED <<svcVars, nextId, cacheVars, req, slots, livestreamModel, txRow,
                   livestreamModelsByUserID, touched, cacheWrites>>

\* Variant that takes the livestream back when the response cannot be built.
FillResponseUndo(r) ==
    /\ pc[r] = "Filling"
    /\ \/ /\ Return(r, "Created")
          /\ UNCHANGED dbVars
       \/ /\ Return(r, "StorageFailure")
          /\ livestreams' = livestreams \ {txRow[r]}
          /\ slot' = [s \in SlotIds |-> IF s \in decremented[r] THEN slot[s] + 1 ELSE slot[s]]
          /\ UNCHANGED livestream_tags
    /\ UNCHANGED <<svcVars, nextId, cacheVars, req, slots, livestreamModel, txRow,
                   livestreamModelsByUserID, touched, decremented, cacheWrites>>

\* fillLivestreamResponse, then the 201 response.  It fails when the owner or
\* a tag is missing from its cache or the livestream_tags read fails.
FillResponse(r) ==
    /\ pc[r] = "Filling"
    /\ \/ Return(r, "Created")
       \/ Return(r, "StorageFailure")
    /\ UNCHANGED <<svcVars, dbVars, nextId, cacheVars, req, slots, livestreamModel, txRow,
                   livestreamModelsByUserID, touched, decremented, cacheWrites>>

\* The HTTP status of a response.
Status(res) ==
    CASE res = "Created"        -> 201
      [] res = "OutOfRange"     -> 400
      [] res = "Overbooked"     -> 400
      [] res = "StorageFailure" -> 500
      [] OTHER                  -> 0

\* ------------------------------------------------------------------ claims
Done(r)     == pc[r] = "done"
Accepted(r) == result[r] = "Created"
Faulted(r)  == result[r] = "StorageFailure"

\* The request's range selects slot row s.
Covers(r, s) == s \in SlotsInRange(req[r].StartAt, req[r].EndAt)

\* The ids of the models in the owner's cached list.
OwnerCacheIds(u) ==
    IF CacheHas(livestreamModelByUserIDCache, u)
    THEN {CacheGet(livestreamModelByUserIDCache, u)[i].ID :
              i \in 1..Len(CacheGet(livestreamModelByUserIDCache, u))}
    ELSE {}

\* C1: no overbooking - for every slot, the number of accepted (201) requests
\* whose range covers the slot never exceeds the initial capacity.
NoOverbooking ==
    \A s \in SlotIds : Cardinality({r \in Reqs : Accepted(r) /\ Covers(r, s)}) <= Capacity

\* C2: every slot's remaining capacity is >= 0 in every reachable state.
CapacityNonNegative == \A s \in SlotIds : slot[s] >= 0

\* C3: two concurrent requests by different owners for exactly the first slot
\* [T, T+1h) of capacity 1, with no other request issued and no storage fault,
\* end with one of them created and the other Overbooked.
OneSlotOneWinner ==
    \A a \in Reqs : \A b \in Reqs \ {a} :
        ( /\ Capacity = 1
          /\ \A o \in Reqs \ {a, b} : pc[o] = "idle"
          /\ \A x \in {a, b} : /\ Done(x)
                               /\ ~Faulted(x)
                               /\ req[x].StartAt = TermStartAt
                               /\ req[x].EndAt = TermStartAt + 1
          /\ req[a].UserID # req[b].UserID )
        => \/ (result[a] = "Created" /\ result[b] = "Overbooked")
           \/ (result[b] = "Created" /\ result[a] = "Overbooked")

\* C4: a request answered Overbooked or OutOfRange has lowered no slot's
\* capacity, inserted no livestreams row and written no cache entry.
RejectionIsAtomic ==
    \A r \in Reqs :
        result[r] \in {"Overbooked", "OutOfRange"} =>
            /\ decremented[r] = {}
            /\ txRow[r] = NoModel
            /\ cacheWrites[r] = {}

\* C4 witness: one request was rejected as Overbooked after another one was
\* accepted and had lowered the capacity.
RejectionIsAtomicWitness ==
    /\ \E r \in Reqs : result[r] = "Overbooked"
    /\ \E r \in Reqs : Accepted(r) /\ decremented[r] # {}

\* C5: a request with any non-success answer (OutOfRange, Overbooked or
\* StorageFailure) has left no livestreams row and lowered no slot capacity.
FailureLeavesNoTrace ==
    \A r \in Reqs :
        result[r] \in {"OutOfRange", "Overbooked", "StorageFailure"} =>
            /\ txRow[r] \notin livestreams
            /\ decremented[r] = {}

\* C6: once a request has returned without its transaction having committed,
\* neither the by-id cache nor the by-owner cache contains its livestream.
CacheOnlyAfterCommit ==
    \A r \in Reqs :
        (Done(r) /\ txRow[r] # NoModel /\ txRow[r] \notin livestreams) =>
            /\ ~CacheHas(livestreamModelByIdCache, txRow[r].ID)
            /\ txRow[r].ID \notin OwnerCacheIds(req[r].UserID)

\* C7: after a successful request, the by-id cache holds, under the generated
\* id, a record equal to the row persisted in livestreams.
CacheAgreesAfterSuccess ==
    \A r \in Reqs :
        Accepted(r) =>
            /\ txRow[r] \in livestreams
            /\ CacheHas(livestreamModelByIdCache, txRow[r].ID)
            /\ CacheGet(livestreamModelByIdCache, txRow[r].ID) = txRow[r]

\* C7 witness: two requests were accepted and both rows are cached.
CacheAgreesAfterSuccessWitness ==
    \E a \in Reqs : \E b \in Reqs \ {a} :
        /\ Accepted(a) /\ Accepted(b)
        /\ CacheHas(livestreamModelByIdCache, txRow[a].ID)
        /\ CacheHas(livestreamModelByIdCache, txRow[b].ID)

\* C8: once every request of an owner has returned without a storage fault,
\* the owner's by-owner cache entry contains the id of each of the owner's
\* accepted livestreams.
OwnerCacheComplete ==
    \A r \in Reqs :
        ( /\ Accepted(r)
          /\ \A o \in Reqs : req[o].UserID = req[r].UserID => (Done(o) /\ ~Faulted(o)) )
        => txRow[r].ID \in OwnerCacheIds(req[r].UserID)

\* The interval [startAt, endAt) is not inside the term [TermStartAt, TermEndAt).
NotContained(startAt, endAt) == startAt < TermStartAt \/ endAt > TermEndAt

\* C9: every request whose interval is not entirely inside the term is answered
\* OutOfRange (storage faults aside).
OutOfRangeUnlessContained ==
    \A r \in Reqs :
        (Done(r) /\ ~Faulted(r) /\ NotContained(req[r].StartAt, req[r].EndAt))
            => result[r] = "OutOfRange"

\* C10: a request with start_at >= term end is answered OutOfRange (400) and
\* has issued no storage read, lock or write and no cache access.
LateStartRejectedUntouched ==
    \A r \in Reqs :
        (req[r].StartAt >= TermEndAt /\ pc[r] \notin {"idle", "Validating"}) =>
            /\ result[r] = "OutOfRange"
            /\ Status(result[r]) = 400
            /\ ~touched[r]
            /\ cacheWrites[r] = {}
            /\ txRow[r] = NoModel

\* C10 witness: the request start = term end, end = term end + 1h was rejected.
LateStartRejectedUntouchedWitness ==
    \E r \in Reqs :
        /\ req[r].StartAt = TermEndAt
        /\ req[r].EndAt = TermEndAt + 1
        /\ result[r] = "OutOfRange"

\* C11: at the moment a request is accepted (its transaction commits), every
\* slot inside the requested range has remaining capacity > 0.
AcceptedOnlyWithCapacity ==
    [][\A r \in Reqs :
          (pc[r] = "Committing" /\ pc'[r] = "Filling") =>
              \A s \in SlotsInRange(req[r].StartAt, req[r].EndAt) : slot[s] > 0]_vars

\* C12: every persisted livestreams row and every cached livestream record has
\* start_at < end_at, and no request with start_at >= end_at is accepted.
StartBeforeEnd ==
    /\ \A l \in livestreams : l.StartAt < l.EndAt
    /\ \A k \in DOMAIN livestreamModelByIdCache :
           livestreamModelByIdCache[k].StartAt < livestreamModelByIdCache[k].EndAt
    /\ \A r \in Reqs :
           (req[r].StartAt >= req[r].EndAt /\ pc[r] # "idle") =>
               /\ ~Accepted(r)
               /\ txRow[r] = NoModel

\* C12 witness: a request with start_at >= end_at passed the term check, reached
\* storage and was turned down, while another request was accepted.
StartBeforeEndWitness ==
    /\ \E r \in Reqs : /\ Done(r)
                       /\ req[r].StartAt >= req[r].EndAt
                       /\ touched[r]
                       /\ Faulted(r)
    /\ \E r \in Reqs : Accepted(r) /\ txRow[r] \in livestreams

\* The request is between its Checking step and its commit or rollback.
CheckedNotEnded(r) ==
    pc[r] \in {"Checking", "Beginning", "Updating", "Inserting", "CacheById",
               "CacheGetByUser", "CacheSetByUser", "Tagging", "Committing"}

\* C13: the locks taken in the Locking step last until commit or rollback, so
\* no two requests whose selected rows overlap are both between Checking and
\* the end of their transaction.
LocksHeldThroughCommit ==
    \A a \in Reqs : \A b \in Reqs \ {a} :
        (CheckedNotEnded(a) /\ CheckedNotEnded(b)) => slots[a] \cap slots[b] = {}

Next ==
    \E r \in Reqs :
        \/ Request(r)
        \/ Validate(r)
        \/ SelectForUpdate(r)
        \/ CountQuery(r)
        \/ BeginTx(r)
        \/ UpdateSlots(r)
        \/ InsertLivestream(r)
        \/ CacheSetById(r)
        \/ CacheGetByUser(r)
        \/ CacheSetByUser(r)
        \/ InsertTags(r)
        \/ Commit(r)
        \/ FillResponse(r)

Spec == Init /\ [][Next]_vars

\* ---------------------------------------------------------------- liveness
\* One step of request r.
Step(r) ==
    \/ Validate(r)
    \/ SelectForUpdate(r)
    \/ CountQuery(r)
    \/ BeginTx(r)
    \/ UpdateSlots(r)
    \/ InsertLivestream(r)
    \/ CacheSetById(r)
    \/ CacheGetByUser(r)
    \/ CacheSetByUser(r)
    \/ InsertTags(r)
    \/ Commit(r)
    \/ FillResponse(r)

\* The request waits for a row lock held by another transaction.
WaitsForLock(r) ==
    /\ pc[r] \in {"Locking", "Updating"}
    /\ SlotsInRange(req[r].StartAt, req[r].EndAt) \cap LockedByOthers(r) # {}

\* A step the scheduler and the database owe to the request: any step of a
\* statement that does not wait, and the granted outcome of the two statements
\* that wait for row locks (a lock-wait timeout is not counted on).
Advance(r) ==
    /\ Step(r)
    /\ pc[r] \in {"Locking", "Updating"} => pc'[r] # "done"

\* Each request's goroutine is scheduled, and a lock wait is granted once the
\* rows stay free.
LiveSpec == Init /\ [][Next]_vars /\ \A r \in Reqs : WF_vars(Advance(r))

\* C14: under fair scheduling every request that was issued eventually returns
\* (accepted or turned down); no request waits for slot locks forever.
EveryRequestReturns == \A r \in Reqs : (pc[r] = "Validating") ~> Done(r)

\* C14 witness: a request waits at a locking statement for rows that another
\* request's transaction holds.
EveryRequestReturnsWitness ==
    \E r \in Reqs : WaitsForLock(r) /\ \E o \in Reqs \ {r} : txLocks[o] # {}

\* ============================================================== user handlers
\* The variables the user handlers leave alone.
commentVars == <<livestreams, livestreamModelByIdCache, livestreamModelByUserIDCache,
                 livecomments, ng_words, nextLivecommentId>>

\* The handler of process p returns with an HTTP status; deferred calls
\* (tx.Rollback) run here and the handler's other locals are gone.
Returned(rec, code) == [Idle EXCEPT !.op = rec.op, !.pc = "done", !.user = rec.user,
                                    !.res = code, !.missed = rec.missed,
                                    !.existed = rec.existed]
Finish(p, code) == h' = [h EXCEPT ![p] = Returned(h[p], code)]
Goto(p, label)  == h' = [h EXCEPT ![p] = [@ EXCEPT !.pc = label]]
Free(p) == h[p].pc \in {"idle", "done"}

\* Processes whose register transaction holds an uncommitted users row.
RegisterTxOpen(p) ==
    /\ h[p].op = "register"
    /\ h[p].pc \in {"CacheById", "CacheByName", "InsertTheme", "ThemeDelete", "Commit"}

\* POST /api/register: decode, refuse the reserved name, hash the password,
\* begin the transaction.
Register(p) ==
    /\ Free(p)
    /\ \E name \in Names \cup {PipeName}, password \in Passwords, darkMode \in BOOLEAN :
          LET start == [Idle EXCEPT !.op = "register", !.name = name,
                                    !.password = password, !.darkMode = darkMode]
          IN  \/ /\ name = PipeName
                 /\ h' = [h EXCEPT ![p] = Returned(start, 400)]
              \/ /\ name # PipeName
                 /\ \/ h' = [h EXCEPT ![p] = [start EXCEPT !.pc = "InsertUser"]]
                    \/ h' = [h EXCEPT ![p] = Returned(start, 500)]
    /\ UNCHANGED <<reserveVars, commentVars, users, themes, tags, icons, nextUserId,
                   userModelByIdCache, userModelByNameCache, themeCache, hashCache,
                   tagModelCache, obs>>

\* INSERT INTO users inside tx.  users.name is unique: the statement waits for
\* an uncommitted row of the same name and fails on a committed one.
InsertUser(p) ==
    /\ h[p].op = "register" /\ h[p].pc = "InsertUser"
    /\ ~\E o \in Procs \ {p} : RegisterTxOpen(o) /\ h[o].name = h[p].name
    /\ \/ /\ \E u \in users : u.Name = h[p].name
          /\ Finish(p, 500)
          /\ UNCHANGED nextUserId
       \/ /\ Finish(p, 500)
          /\ UNCHANGED nextUserId
       \/ /\ ~\E u \in users : u.Name = h[p].name
          /\ nextUserId <= MaxUserId
          /\ h' = [h EXCEPT ![p] = [@ EXCEPT !.pc = "CacheById",
                     !.user = [ID |-> nextUserId, Name |-> h[p].name,
                               HashedPassword |-> Bcrypt(h[p].password)]]]
          /\ nextUserId' = nextUserId + 1
    /\ UNCHANGED <<reserveVars, commentVars, users, themes, tags, icons,
                   userModelByIdCache, userModelByNameCache, themeCache, hashCache,
                   tagModelCache, obs>>

\* userModelByIdCache.Set(userModel.ID, userModel)
RegisterCacheById(p) ==
    /\ h[p].op = "register" /\ h[p].pc = "CacheById"
    /\ userModelByIdCache' = CacheSet(userModelByIdCache, h[p].user.ID, h[p].user)
    /\ Goto(p, "CacheByName")
    /\ UNCHANGED <<reserveVars, commentVars, users, themes, tags, icons, nextUserId,
                   userModelByNameCache, themeCache, hashCache, tagModelCache, obs>>

\* userModelByNameCache.Set(userModel.Name, userModel)
RegisterCacheByName(p) ==
    /\ h[p].op = "register" /\ h[p].pc = "CacheByName"
    /\ userModelByNameCache' = CacheSet(userModelByNameCache, h[p].user.Name, h[p].user)
    /\ Goto(p, "InsertTheme")
    /\ UNCHANGED <<reserveVars, commentVars, users, themes, tags, icons, nextUserId,
                   userModelByIdCache, themeCache, hashCache, tagModelCache, obs>>

\* INSERT INTO themes inside tx.
InsertTheme(p) ==
    /\ h[p].op = "register" /\ h[p].pc = "InsertTheme"
    /\ \/ h' = [h EXCEPT ![p] = [@ EXCEPT !.pc = "ThemeDelete",
                   !.theme = [UserID |-> h[p].user.ID, DarkMode |-> h[p].darkMode]]]
       \/ Finish(p, 500)
    /\ UNCHANGED <<reserveVars, commentVars, users, themes, tags, icons, nextUserId,
                   userModelByIdCache, userModelByNameCache, themeCache, hashCache,
                   tagModelCache, obs>>

\* themeCache.Delete(req.Name); addSubdomain has no result the handler reads.
RegisterThemeDelete(p) ==
    /\ h[p].op = "register" /\ h[p].pc = "ThemeDelete"
    /\ themeCache' = CacheDelete(themeCache, h[p].name)
    /\ Goto(p, "Commit")
    /\ UNCHANGED <<reserveVars, commentVars, users, themes, tags, icons, nextUserId,
                   userModelByIdCache, userModelByNameCache, hashCache, tagModelCache, obs>>

\* tx.Commit(): the users row and the themes row become durable together.
RegisterCommit(p) ==
    /\ h[p].op = "register" /\ h[p].pc = "Commit"
    /\ \/ /\ users' = users \cup {h[p].user}
          /\ themes' = themes \cup {h[p].theme}
          /\ h' = [h EXCEPT ![p] = [@ EXCEPT !.pc = "ThemeGet", !.theme = NoTheme]]
       \/ /\ Finish(p, 500)
          /\ UNCHANGED <<users, themes>>
    /\ UNCHANGED <<reserveVars, commentVars, tags, icons, nextUserId,
                   userModelByIdCache, userModelByNameCache, themeCache, hashCache,
                   tagModelCache, obs>>

\* POST /api/login: the user comes from the by-name cache alone.
Login(p) ==
    /\ Free(p)
    /\ \E name \in Names, password \in LoginPasswords :
          LET start == [Idle EXCEPT !.op = "login", !.name = name]
          IN  IF ~CacheHas(userModelByNameCache, name)
              THEN h' = [h EXCEPT ![p] = Returned(start, 401)]
              ELSE LET userModel == CacheGet(userModelByNameCache, name)
                   IN  IF CompareHashAndPassword(userModel.HashedPassword, password)
                       THEN \/ h' = [h EXCEPT ![p] =
                                        Returned([start EXCEPT !.user = userModel], 200)]
                            \/ h' = [h EXCEPT ![p] = Returned(start, 500)]
                       ELSE h' = [h EXCEPT ![p] = Returned(start, 401)]
    /\ UNCHANGED <<reserveVars, commentVars, users, themes, tags, icons, nextUserId,
                   userModelByIdCache, userModelByNameCache, themeCache, hashCache,
                   tagModelCache, obs>>

\* User ids a session can carry: loginHandler stores the id of a by-name
\* cache entry.
SessionUserIds == {CacheGet(userModelByNameCache, n).ID : n \in DOMAIN userModelByNameCache}

\* getIcon: the icon file of a user, or os.ErrNotExist.
HasIcon(userID) == userID \in DOMAIN icons
IconOrFallback(userID) == IF HasIcon(userID) THEN icons[userID] ELSE FallbackImage

\* POST /api/icon, first part: saveIcon(userID, req.Image) writes the file.
PostIcon(p) ==
    /\ Free(p)
    /\ \E userID \in SessionUserIds, image \in Images :
          LET start == [Idle EXCEPT !.op = "postIcon", !.image = image,
                                    !.user = [NoUser EXCEPT !.ID = userID]]
          IN  \/ /\ icons' = CacheSet(icons, userID, image)
                 /\ h' = [h EXCEPT ![p] = [start EXCEPT !.pc = "GetUser"]]
              \/ /\ h' = [h EXCEPT ![p] = Returned(start, 500)]
                 /\ UNCHANGED icons
    /\ UNCHANGED <<reserveVars, commentVars, users, themes, tags, nextUserId,
                   userModelByIdCache, userModelByNameCache, themeCache, hashCache,
                   tagModelCache, obs>>

\* userModelByIdCache.Get(userID)
PostIconGetUser(p) ==
    /\ h[p].op = "postIcon" /\ h[p].pc = "GetUser"
    /\ IF CacheHas(userModelByIdCache, h[p].user.ID)
       THEN h' = [h EXCEPT ![p] = [@ EXCEPT !.pc = "HashDelete",
                     !.user = CacheGet(userModelByIdCache, h[p].user.ID)]]
       ELSE Finish(p, 404)
    /\ UNCHANGED <<reserveVars, commentVars, users, themes, tags, icons, nextUserId,
                   userModelByIdCache, userModelByNameCache, themeCache, hashCache,
                   tagModelCache, obs>>

\* hashCache.Delete(user.Name)
PostIconHashDelete(p) ==
    /\ h[p].op = "postIcon" /\ h[p].pc = "HashDelete"
    /\ hashCache' = CacheDelete(hashCache, h[p].user.Name)
    /\ Finish(p, 201)
    /\ UNCHANGED <<reserveVars, commentVars, users, themes, tags, icons, nextUserId,
                   userModelByIdCache, userModelByNameCache, themeCache, tagModelCache, obs>>

\* GET /api/user/me up to its call of fillUserResponse.
GetMe(p) ==
    /\ Free(p)
    /\ \E userID \in SessionUserIds :
          LET start == [Idle EXCEPT !.op = "getMe"]
          IN  IF CacheHas(userModelByIdCache, userID)
              THEN h' = [h EXCEPT ![p] = [start EXCEPT !.pc = "ThemeGet",
                            !.user = CacheGet(userModelByIdCache, userID)]]
              ELSE h' = [h EXCEPT ![p] = Returned(start, 404)]
    /\ UNCHANGED <<reserveVars, commentVars, users, themes, tags, icons, nextUserId,
                   userModelByIdCache, userModelByNameCache, themeCache, hashCache,
                   tagModelCache, obs>>

\* ------------------------------------------------------------ fillUserResponse
Filling(p) == h[p].op \in {"register", "getMe", "postLivecomment"}

\* themeCache.Get(userModel.Name)
FillThemeGet(p) ==
    /\ Filling(p) /\ h[p].pc = "ThemeGet"
    /\ IF CacheHas(themeCache, h[p].user.Name)
       THEN h' = [h EXCEPT ![p] = [@ EXCEPT !.pc = "HashGet",
                     !.theme = CacheGet(themeCache, h[p].user.Name)]]
       ELSE Goto(p, "ThemeSelect")
    /\ UNCHANGED <<reserveVars, commentVars, users, themes, tags, icons, nextUserId,
                   userModelByIdCache, userModelByNameCache, themeCache, hashCache,
                   tagModelCache, obs>>

\* SELECT * FROM themes WHERE user_id = ?; no row is an error as well.
FillThemeSelect(p) ==
    /\ Filling(p) /\ h[p].pc = "ThemeSelect"
    /\ \/ \E themeModel \in themes :
             /\ themeModel.UserID = h[p].user.ID
             /\ h' = [h EXCEPT ![p] = [@ EXCEPT !.pc = "ThemeSet", !.theme = themeModel]]
       \/ /\ ~\E themeModel \in themes : themeModel.UserID = h[p].user.ID
          /\ Finish(p, 500)
       \/ Finish(p, 500)
    /\ UNCHANGED <<reserveVars, commentVars, users, themes, tags, icons, nextUserId,
                   userModelByIdCache, userModelByNameCache, themeCache, hashCache,
                   tagModelCache, obs>>

\* themeCache.Set(userModel.Name, theme)
FillThemeSet(p) ==
    /\ Filling(p) /\ h[p].pc = "ThemeSet"
    /\ themeCache' = CacheSet(themeCache, h[p].user.Name, h[p].theme)
    /\ Goto(p, "HashGet")
    /\ UNCHANGED <<reserveVars, commentVars, users, themes, tags, icons, nextUserId,
                   userModelByIdCache, userModelByNameCache, hashCache, tagModelCache, obs>>

\* The status of a handler whose fillUserResponse succeeded.
Filled(p) == IF h[p].op = "register" THEN 201 ELSE 200

\* fillUserResponse returns to its caller: registerHandler and getMeHandler
\* respond; fillLivecommentResponse goes on with the livestream (after the
\* comment owner) or with the tags (after the livestream owner).
FillReturn(p) ==
    IF h[p].op = "postLivecomment"
    THEN h' = [h EXCEPT ![p] = [@ EXCEPT
                 !.pc = IF h[p].stage = 1 THEN "LivestreamGet" ELSE "TagsSelect"]]
    ELSE Finish(p, Filled(p))

\* hashCache.Get(userModel.Name); a hit ends fillUserResponse.
FillHashGet(p) ==
    /\ Filling(p) /\ h[p].pc = "HashGet"
    /\ IF CacheHas(hashCache, h[p].user.Name)
       THEN FillReturn(p)
       ELSE Goto(p, "IconRead")
    /\ UNCHANGED <<reserveVars, commentVars, users, themes, tags, icons, nextUserId,
                   userModelByIdCache, userModelByNameCache, themeCache, hashCache,
                   tagModelCache, obs>>

\* getIcon(userModel.ID) and sha256.Sum256, or fallbackImageHash when the
\* file does not exist.
FillIconRead(p) ==
    /\ Filling(p) /\ h[p].pc = "IconRead"
    /\ \/ h' = [h EXCEPT ![p] = [@ EXCEPT !.pc = "HashSet",
                   !.hash = IF HasIcon(h[p].user.ID) THEN Sha256(icons[h[p].user.ID])
                                                     ELSE fallbackImageHash]]
       \/ Finish(p, 500)
    /\ UNCHANGED <<reserveVars, commentVars, users, themes, tags, icons, nextUserId,
                   userModelByIdCache, userModelByNameCache, themeCache, hashCache,
                   tagModelCache, obs>>

\* hashCache.Set(userModel.Name, iconHash)
FillHashSet(p) ==
    /\ Filling(p) /\ h[p].pc = "HashSet"
    /\ hashCache' = CacheSet(hashCache, h[p].user.Name, h[p].hash)
    /\ FillReturn(p)
    /\ UNCHANGED <<reserveVars, commentVars, users, themes, tags, icons, nextUserId,
                   userModelByIdCache, userModelByNameCache, themeCache, tagModelCache, obs>>

\* -------------------------------------------------------- fillUserResponseBulk
\* Each loop over userModels touches one cache and is one step.
IdsOf(userModels) == {u.ID : u \in userModels}
\* userModelsMap[userID].Name
NameOf(userModels, userID) == (CHOOSE u \in userModels : u.ID = userID).Name

\* A range over a Go map visits its keys in any order: of several ids that
\* share a name any one may be the last to be Set.
LastSetters(userModels, ids) ==
    {f \in [{NameOf(userModels, i) : i \in ids} -> ids] :
        \A n \in DOMAIN f : NameOf(userModels, f[n]) = n}

\* A response assembler calls fillUserResponseBulk with user models it took
\* from the by-id cache; first loop: themeCache.Get per user.
BulkThemeGet(p) ==
    /\ Free(p)
    /\ \E ids \in SUBSET (DOMAIN userModelByIdCache) :
          /\ ids # {}
          /\ LET userModels == {CacheGet(userModelByIdCache, i) : i \in ids}
                 hits == {i \in ids : CacheHas(themeCache, NameOf(userModels, i))}
             IN  h' = [h EXCEPT ![p] = [Idle EXCEPT
                        !.op = "fillBulk",
                        !.pc = IF hits = ids THEN "BulkHashGet" ELSE "BulkThemeSelect",
                        !.userModels = userModels,
                        !.themeMap = [i \in hits |->
                                         CacheGet(themeCache, NameOf(userModels, i))],
                        !.misses = ids \ hits]]
    /\ UNCHANGED <<reserveVars, commentVars, users, themes, tags, icons, nextUserId,
                   userModelByIdCache, userModelByNameCache, themeCache, hashCache,
                   tagModelCache, obs>>

\* SELECT * FROM themes WHERE user_id IN (?)
BulkThemeSelect(p) ==
    /\ h[p].op = "fillBulk" /\ h[p].pc = "BulkThemeSelect"
    /\ \/ LET found == {i \in h[p].misses : \E m \in themes : m.UserID = i}
          IN  h' = [h EXCEPT ![p] = [@ EXCEPT
                     !.pc = "BulkThemeSet",
                     !.misses = found,
                     !.themeMap = [i \in (DOMAIN h[p].themeMap) \cup found |->
                                      IF i \in found
                                      THEN CHOOSE m \in themes : m.UserID = i
                                      ELSE h[p].themeMap[i]]]]
       \/ Finish(p, 500)
    /\ UNCHANGED <<reserveVars, commentVars, users, themes, tags, icons, nextUserId,
                   userModelByIdCache, userModelByNameCache, themeCache, hashCache,
                   tagModelCache, obs>>

\* themeCache.Set(userModelsMap[themeModel.UserID].Name, theme) per row read
BulkThemeSet(p) ==
    /\ h[p].op = "fillBulk" /\ h[p].pc = "BulkThemeSet"
    /\ \E f \in LastSetters(h[p].userModels, h[p].misses) :
          themeCache' = [n \in (DOMAIN themeCache) \cup (DOMAIN f) |->
                            IF n \in DOMAIN f THEN h[p].themeMap[f[n]] ELSE themeCache[n]]
    /\ h' = [h EXCEPT ![p] = [@ EXCEPT !.pc = "BulkHashGet", !.misses = {}]]
    /\ UNCHANGED <<reserveVars, commentVars, users, themes, tags, icons, nextUserId,
                   userModelByIdCache, userModelByNameCache, hashCache, tagModelCache, obs>>

\* Second loop: hashCache.Get per user; hits go to iconHashMap.
BulkHashGet(p) ==
    /\ h[p].op = "fillBulk" /\ h[p].pc = "BulkHashGet"
    /\ LET ids == IdsOf(h[p].userModels)
           hits == {i \in ids : CacheHas(hashCache, NameOf(h[p].userModels, i))}
       IN  IF hits = ids
           THEN Finish(p, 200)
           ELSE h' = [h EXCEPT ![p] = [@ EXCEPT
                      !.pc = "BulkIconRead",
                      !.iconHashMap = [i \in hits |->
                                          CacheGet(hashCache, NameOf(h[p].userModels, i))],
                      !.misses = ids \ hits]]
    /\ UNCHANGED <<reserveVars, commentVars, users, themes, tags, icons, nextUserId,
                   userModelByIdCache, userModelByNameCache, themeCache, hashCache,
                   tagModelCache, obs>>

\* getIcon per missed user, the fallback image when the file does not exist.
BulkIconRead(p) ==
    /\ h[p].op = "fillBulk" /\ h[p].pc = "BulkIconRead"
    /\ \/ h' = [h EXCEPT ![p] = [@ EXCEPT !.pc = "BulkHashing",
                   !.images = [i \in h[p].misses |-> IconOrFallback(i)]]]
       \/ Finish(p, 500)
    /\ UNCHANGED <<reserveVars, commentVars, users, themes, tags, icons, nextUserId,
                   userModelByIdCache, userModelByNameCache, themeCache, hashCache,
                   tagModelCache, obs>>

\* One goroutine per image runs iconHashMap[userID] = sha256.Sum256(image);
\* nothing orders the goroutines. A goroutine enters its write to the map:
\* writing holds the goroutines inside the assignment, raced whether two of
\* them have been inside it together.
BulkHashBegin(p) ==
    /\ h[p].op = "fillBulk" /\ h[p].pc = "BulkHashing"
    /\ \E userID \in h[p].misses \ h[p].writing :
          h' = [h EXCEPT ![p] = [@ EXCEPT
                  !.writing = @ \cup {userID},
                  !.raced = @ \/ h[p].writing # {}]]
    /\ UNCHANGED <<reserveVars, commentVars, users, themes, tags, icons, nextUserId,
                   userModelByIdCache, userModelByNameCache, themeCache, hashCache,
                   tagModelCache, obs>>

\* The Go runtime on "fatal error: concurrent map writes": the process ends
\* and every handler with it.
Fatal == [Idle EXCEPT !.pc = "fatal"]

\* The goroutine leaves its write and calls wg.Done(). Writes of a Go map that
\* overlapped are a data race: the entry is stored, or it is lost, or the
\* runtime ends the process.
BulkHashEnd(p) ==
    /\ h[p].op = "fillBulk" /\ h[p].pc = "BulkHashing"
    /\ \E userID \in h[p].writing :
          \/ h' = [h EXCEPT ![p] = [@ EXCEPT
                     !.misses = @ \ {userID},
                     !.writing = @ \ {userID},
                     !.iconHashMap = CacheSet(@, userID, Sha256(h[p].images[userID]))]]
          \/ /\ h[p].raced
             /\ h' = [h EXCEPT ![p] = [@ EXCEPT
                        !.misses = @ \ {userID},
                        !.writing = @ \ {userID}]]
          \/ /\ h[p].raced
             /\ h' = [q \in Procs |-> Fatal]
    /\ UNCHANGED <<reserveVars, commentVars, users, themes, tags, icons, nextUserId,
                   userModelByIdCache, userModelByNameCache, themeCache, hashCache,
                   tagModelCache, obs>>

\* After wg.Wait(): hashCache.Set per entry of iconHashMap, the entries that
\* were cache hits included.
BulkHashSet(p) ==
    /\ h[p].op = "fillBulk" /\ h[p].pc = "BulkHashing"
    /\ h[p].misses = {}
    /\ \E f \in LastSetters(h[p].userModels, DOMAIN h[p].iconHashMap) :
          hashCache' = [n \in (DOMAIN hashCache) \cup (DOMAIN f) |->
                           IF n \in DOMAIN f THEN h[p].iconHashMap[f[n]] ELSE hashCache[n]]
    /\ Finish(p, 200)
    /\ UNCHANGED <<reserveVars, commentVars, users, themes, tags, icons, nextUserId,
                   userModelByIdCache, userModelByNameCache, themeCache, tagModelCache, obs>>

UserNext ==
    \E p \in Procs :
        \/ Register(p)
        \/ InsertUser(p)
        \/ RegisterCacheById(p)
        \/ RegisterCacheByName(p)
        \/ InsertTheme(p)
        \/ RegisterThemeDelete(p)
        \/ RegisterCommit(p)
        \/ Login(p)
        \/ PostIcon(p)
        \/ PostIconGetUser(p)
        \/ PostIconHashDelete(p)
        \/ GetMe(p)
        \/ FillThemeGet(p)
        \/ FillThemeSelect(p)
        \/ FillThemeSet(p)
        \/ FillHashGet(p)
        \/ FillIconRead(p)
        \/ FillHashSet(p)
        \/ BulkThemeGet(p)
        \/ BulkThemeSelect(p)
        \/ BulkThemeSet(p)
        \/ BulkHashGet(p)
        \/ BulkIconRead(p)
        \/ BulkHashBegin(p)
        \/ BulkHashEnd(p)
        \/ BulkHashSet(p)

\* The user handlers serving requests after a completed initialization.
UserSpec == Init /\ [][UserNext]_vars


\* ======================================================= initialization, reads
\* The locals of the reservation requests.
reserveLocals == <<pc, req, slots, txLocks, livestreamModel, txRow, livestreamModelsByUserID,
                   result, touched, decremented, cacheWrites>>

\* The one livestream of the model's data sets: user 1, first hour of the term.
FirstLivestream == [ID |-> 1, UserID |-> 1, StartAt |-> TermStartAt,
                    EndAt |-> TermStartAt + 1]
\* The livestreams rows the data set loaded by init.sh may hold.
DatasetLivestreams == {FirstLivestream}
LivestreamIds == 1..(Cardinality(DatasetLivestreams) + 1)

\* Variant of the tag loop that stores each row under the next free key.
RECURSIVE LoadTagsAppended(_, _)
LoadTagsAppended(cache, rows) ==
    IF rows = {} THEN cache
    ELSE LET tag == CHOOSE x \in rows : TRUE
         IN  LoadTagsAppended(CacheSet(cache, Cardinality(DOMAIN cache) + 1, tag),
                              rows \ {tag})

\* The loops of initializeHandler over the rows it selected: one Set per row.
RECURSIVE LoadTags(_, _)
LoadTags(cache, rows) ==
    IF rows = {} THEN cache
    ELSE LET tag == CHOOSE x \in rows : TRUE
         IN  LoadTags(CacheSet(cache, tag.ID, tag), rows \ {tag})

RECURSIVE LoadUsersById(_, _)
LoadUsersById(cache, rows) ==
    IF rows = {} THEN cache
    ELSE LET user == CHOOSE x \in rows : TRUE
         IN  LoadUsersById(CacheSet(cache, user.ID, user), rows \ {user})

RECURSIVE LoadUsersByName(_, _)
LoadUsersByName(cache, rows) ==
    IF rows = {} THEN cache
    ELSE LET user == CHOOSE x \in rows : TRUE
         IN  LoadUsersByName(CacheSet(cache, user.Name, user), rows \ {user})

\* Variant of initCaches that leaves the icon-hash cache out.
initCachesWithoutHash ==
    /\ UNCHANGED hashCache
    /\ themeCache' = EmptyCache
    /\ tagModelCache' = EmptyCache
    /\ userModelByIdCache' = EmptyCache
    /\ userModelByNameCache' = EmptyCache
    /\ livestreamModelByIdCache' = EmptyCache
    /\ livestreamModelByUserIDCache' = EmptyCache

\* initCaches(): Init() on each of the seven caches.
initCaches ==
    /\ hashCache' = EmptyCache
    /\ themeCache' = EmptyCache
    /\ tagModelCache' = EmptyCache
    /\ userModelByIdCache' = EmptyCache
    /\ userModelByNameCache' = EmptyCache
    /\ livestreamModelByIdCache' = EmptyCache
    /\ livestreamModelByUserIDCache' = EmptyCache

\* POST /api/initialize: resetSubdomains(), then initCaches().
Initialize(p) ==
    /\ Free(p)
    /\ h' = [h EXCEPT ![p] = [Idle EXCEPT !.op = "initialize", !.pc = "InitSh"]]
    /\ initCaches
    /\ UNCHANGED <<reserveVars, livestreams, livecomments, ng_words, nextLivecommentId,
                   users, themes, tags, icons, nextUserId, obs>>

\* A reserve or register transaction holds row locks or uncommitted rows.
TxOpen == (\E r \in Reqs : txLocks[r] # {}) \/ (\E q \in Procs : RegisterTxOpen(q))

\* ../sql/init.sh puts every table back to the initial data set; the index
\* statements that follow only log their errors.  Icon files are not touched.
\* The reset of a table waits for the transactions that hold locks in it.
RunInitSh(p) ==
    /\ h[p].op = "initialize" /\ h[p].pc = "InitSh"
    /\ \/ /\ ~TxOpen
          /\ \E dataset \in SUBSET DatasetLivestreams :
                /\ livestreams' = dataset
                /\ nextId' = Cardinality(dataset) + 1
          /\ slot' = InitialSlots
          /\ livestream_tags' = {}
          /\ users' = InitialUsers
          /\ themes' = InitialThemes
          /\ tags' = InitialTags
          /\ nextUserId' = Cardinality(InitialUsers) + 1
          /\ livecomments' = {}
          /\ ng_words' = {}
          /\ nextLivecommentId' = 1
          /\ Goto(p, "SelectTags")
       \/ /\ Finish(p, 500)
          /\ UNCHANGED <<livestreams, nextId, slot, livestream_tags, users, themes, tags,
                         nextUserId, livecomments, ng_words, nextLivecommentId>>
    /\ UNCHANGED <<reserveLocals, cacheVars, icons, userModelByIdCache,
                   userModelByNameCache, themeCache, hashCache, tagModelCache, obs>>

\* SELECT * FROM tags
SelectTags(p) ==
    /\ h[p].op = "initialize" /\ h[p].pc = "SelectTags"
    /\ \/ h' = [h EXCEPT ![p] = [@ EXCEPT !.pc = "SetTags", !.tagModels = tags]]
       \/ Finish(p, 500)
    /\ UNCHANGED <<reserveVars, commentVars, users, themes, tags, icons, nextUserId,
                   userModelByIdCache, userModelByNameCache, themeCache, hashCache,
                   tagModelCache, obs>>

\* for _, tag := range tags { tagModelCache.Set(tag.ID, tag) }
SetTags(p) ==
    /\ h[p].op = "initialize" /\ h[p].pc = "SetTags"
    /\ tagModelCache' = LoadTags(tagModelCache, h[p].tagModels)
    /\ h' = [h EXCEPT ![p] = [@ EXCEPT !.pc = "SelectUsers", !.tagModels = {}]]
    /\ UNCHANGED <<reserveVars, commentVars, users, themes, tags, icons, nextUserId,
                   userModelByIdCache, userModelByNameCache, themeCache, hashCache, obs>>

\* SELECT * FROM users
SelectUsers(p) ==
    /\ h[p].op = "initialize" /\ h[p].pc = "SelectUsers"
    /\ \/ h' = [h EXCEPT ![p] = [@ EXCEPT !.pc = "SetUsers", !.userModels = users]]
       \/ Finish(p, 500)
    /\ UNCHANGED <<reserveVars, commentVars, users, themes, tags, icons, nextUserId,
                   userModelByIdCache, userModelByNameCache, themeCache, hashCache,
                   tagModelCache, obs>>

\* for _, user := range users { userModelByIdCache.Set; userModelByNameCache.Set }
SetUsers(p) ==
    /\ h[p].op = "initialize" /\ h[p].pc = "SetUsers"
    /\ userModelByIdCache' = LoadUsersById(userModelByIdCache, h[p].userModels)
    /\ userModelByNameCache' = LoadUsersByName(userModelByNameCache, h[p].userModels)
    /\ Finish(p, 200)
    /\ UNCHANGED <<reserveVars, commentVars, users, themes, tags, icons, nextUserId,
                   themeCache, hashCache, tagModelCache, obs>>

\* No initialization is between its cache reset and its return.
Settled == \A q \in Procs : h[q].op = "initialize" => Free(q)

\* GET /api/user/:username/statistics up to the by-name lookup.
GetUserStatistics(p) ==
    /\ Free(p)
    /\ \E username \in Names :
          LET start == [Idle EXCEPT !.op = "getUserStatistics", !.name = username]
          IN  IF CacheHas(userModelByNameCache, username)
              THEN h' = [h EXCEPT ![p] = [start EXCEPT !.pc = "Ranking",
                            !.user = CacheGet(userModelByNameCache, username)]]
              ELSE h' = [h EXCEPT ![p] = Returned([start EXCEPT
                            !.missed = "userModelByNameCache",
                            !.existed = Settled /\ \E u \in users : u.Name = username], 400)]
    /\ UNCHANGED <<reserveVars, commentVars, users, themes, tags, icons, nextUserId,
                   userModelByIdCache, userModelByNameCache, themeCache, hashCache,
                   tagModelCache, obs>>

\* The ranking query and the reaction count: reads whose values the model
\* does not follow; each may fail.
StatisticsRanking(p) ==
    /\ h[p].op = "getUserStatistics" /\ h[p].pc = "Ranking"
    /\ \/ Goto(p, "GetLivestreams")
       \/ Finish(p, 500)
    /\ UNCHANGED <<reserveVars, commentVars, users, themes, tags, icons, nextUserId,
                   userModelByIdCache, userModelByNameCache, themeCache, hashCache,
                   tagModelCache, obs>>

\* livestreamModelByUserIDCache.Get(user.ID); a miss is answered 500.
StatisticsGetLivestreams(p) ==
    /\ h[p].op = "getUserStatistics" /\ h[p].pc = "GetLivestreams"
    /\ IF CacheHas(livestreamModelByUserIDCache, h[p].user.ID)
       THEN Goto(p, "Totals")
       ELSE h' = [h EXCEPT ![p] = Returned([h[p] EXCEPT
                     !.missed = "livestreamModelByUserIDCache",
                     !.existed = Settled /\ h[p].user \in users], 500)]
    /\ UNCHANGED <<reserveVars, commentVars, users, themes, tags, icons, nextUserId,
                   userModelByIdCache, userModelByNameCache, themeCache, hashCache,
                   tagModelCache, obs>>

\* The livecomment, viewer and favourite-emoji queries, then 200.
StatisticsTotals(p) ==
    /\ h[p].op = "getUserStatistics" /\ h[p].pc = "Totals"
    /\ \/ Finish(p, 200)
       \/ Finish(p, 500)
    /\ UNCHANGED <<reserveVars, commentVars, users, themes, tags, icons, nextUserId,
                   userModelByIdCache, userModelByNameCache, themeCache, hashCache,
                   tagModelCache, obs>>

\* Comments are strings over a one-letter alphabet, NG words likewise.
Comments == {<<1>>}
\* strings.Contains(comment, word)
Contains(comment, word) ==
    \E i \in 1..(Len(comment) + 1) :
        /\ i + Len(word) - 1 <= Len(comment)
        /\ SubSeq(comment, i, i + Len(word) - 1) = word

\* POST /api/livestream/:livestream_id/livecomment up to the by-id lookup; the
\* session cookie may be older than the last initialization.
PostLivecomment(p) ==
    /\ Free(p)
    /\ \E userID \in UserIds, livestreamID \in LivestreamIds, comment \in Comments :
          LET start == [Idle EXCEPT !.op = "postLivecomment", !.comment = comment,
                                    !.user = [NoUser EXCEPT !.ID = userID]]
          IN  IF CacheHas(livestreamModelByIdCache, livestreamID)
              THEN h' = [h EXCEPT ![p] = [start EXCEPT !.pc = "NgWords",
                            !.livestream = CacheGet(livestreamModelByIdCache, livestreamID)]]
              ELSE h' = [h EXCEPT ![p] = Returned([start EXCEPT
                            !.missed = "livestreamModelByIdCache",
                            !.existed = Settled /\ \E l \in livestreams : l.ID = livestreamID],
                            404)]
    /\ UNCHANGED <<reserveVars, commentVars, users, themes, tags, icons, nextUserId,
                   userModelByIdCache, userModelByNameCache, themeCache, hashCache,
                   tagModelCache, obs>>

\* SELECT ... FROM ng_words WHERE user_id = ? AND livestream_id = ?, then the
\* spam check.
CommentNgWords(p) ==
    /\ h[p].op = "postLivecomment" /\ h[p].pc = "NgWords"
    /\ \/ LET ngwords == {w \in ng_words : /\ w.UserID = h[p].livestream.UserID
                                          /\ w.LivestreamID = h[p].livestream.ID}
          IN  IF \E w \in ngwords : Contains(h[p].comment, w.Word)
              THEN Finish(p, 400)
              ELSE Goto(p, "InsertComment")
       \/ Finish(p, 500)
    /\ UNCHANGED <<reserveVars, commentVars, users, themes, tags, icons, nextUserId,
                   userModelByIdCache, userModelByNameCache, themeCache, hashCache,
                   tagModelCache, obs>>

\* INSERT INTO livecomments on dbConn (auto-committed), LastInsertId.
InsertComment(p) ==
    /\ h[p].op = "postLivecomment" /\ h[p].pc = "InsertComment"
    /\ \/ /\ nextLivecommentId <= MaxLivecomments
          /\ livecomments' = livecomments \cup
                 {[ID |-> nextLivecommentId, UserID |-> h[p].user.ID,
                   LivestreamID |-> h[p].livestream.ID, Comment |-> h[p].comment]}
          /\ nextLivecommentId' = nextLivecommentId + 1
          /\ Goto(p, "CommentOwnerGet")
       \/ /\ Finish(p, 500)
          /\ UNCHANGED <<livecomments, nextLivecommentId>>
    /\ UNCHANGED <<reserveVars, livestreams, cacheVars, ng_words, users, themes, tags, icons,
                   nextUserId, userModelByIdCache, userModelByNameCache, themeCache,
                   hashCache, tagModelCache, obs>>

\* fillLivecommentResponse: userModelByIdCache.Get(livecommentModel.UserID),
\* then fillUserResponse for the comment owner.
CommentOwnerGet(p) ==
    /\ h[p].op = "postLivecomment" /\ h[p].pc = "CommentOwnerGet"
    /\ IF CacheHas(userModelByIdCache, h[p].user.ID)
       THEN h' = [h EXCEPT ![p] = [@ EXCEPT !.pc = "ThemeGet", !.stage = 1,
                     !.user = CacheGet(userModelByIdCache, h[p].user.ID)]]
       ELSE Finish(p, 500)
    /\ UNCHANGED <<reserveVars, commentVars, users, themes, tags, icons, nextUserId,
                   userModelByIdCache, userModelByNameCache, themeCache, hashCache,
                   tagModelCache, obs>>

\* fillLivecommentResponse: livestreamModelByIdCache.Get(LivestreamID).
CommentLivestreamGet(p) ==
    /\ h[p].op = "postLivecomment" /\ h[p].pc = "LivestreamGet"
    /\ IF CacheHas(livestreamModelByIdCache, h[p].livestream.ID)
       THEN h' = [h EXCEPT ![p] = [@ EXCEPT !.pc = "OwnerGet",
                     !.livestream = CacheGet(livestreamModelByIdCache, h[p].livestream.ID)]]
       ELSE Finish(p, 500)
    /\ UNCHANGED <<reserveVars, commentVars, users, themes, tags, icons, nextUserId,
                   userModelByIdCache, userModelByNameCache, themeCache, hashCache,
                   tagModelCache, obs>>

\* fillLivestreamResponse: userModelByIdCache.Get(livestreamModel.UserID), then
\* fillUserResponse for the owner.
CommentLivestreamOwnerGet(p) ==
    /\ h[p].op = "postLivecomment" /\ h[p].pc = "OwnerGet"
    /\ IF CacheHas(userModelByIdCache, h[p].livestream.UserID)
       THEN h' = [h EXCEPT ![p] = [@ EXCEPT !.pc = "ThemeGet", !.stage = 2,
                     !.user = CacheGet(userModelByIdCache, h[p].livestream.UserID)]]
       ELSE Finish(p, 500)
    /\ UNCHANGED <<reserveVars, commentVars, users, themes, tags, icons, nextUserId,
                   userModelByIdCache, userModelByNameCache, themeCache, hashCache,
                   tagModelCache, obs>>

\* fillLivestreamResponse: SELECT * FROM livestream_tags WHERE livestream_id = ?
CommentTagsSelect(p) ==
    /\ h[p].op = "postLivecomment" /\ h[p].pc = "TagsSelect"
    /\ \/ h' = [h EXCEPT ![p] = [@ EXCEPT !.pc = "TagsGet",
                   !.tagModels = {g \in livestream_tags :
                                     g.LivestreamID = h[p].livestream.ID}]]
       \/ Finish(p, 500)
    /\ UNCHANGED <<reserveVars, commentVars, users, themes, tags, icons, nextUserId,
                   userModelByIdCache, userModelByNameCache, themeCache, hashCache,
                   tagModelCache, obs>>

\* fillLivestreamResponse: tagModelCache.Get per tag row, then 201.
CommentTagsGet(p) ==
    /\ h[p].op = "postLivecomment" /\ h[p].pc = "TagsGet"
    /\ IF \A g \in h[p].tagModels : CacheHas(tagModelCache, g.TagID)
       THEN Finish(p, 201)
       ELSE Finish(p, 500)
    /\ UNCHANGED <<reserveVars, commentVars, users, themes, tags, icons, nextUserId,
                   userModelByIdCache, userModelByNameCache, themeCache, hashCache,
                   tagModelCache, obs>>

\* The service has accepted one reservation (user 1, first hour, every tag)
\* since an initialization whose data set had no livestream.
ServingInit ==
    /\ slot = [s \in SlotIds |-> IF s \in SlotsInRange(FirstLivestream.StartAt,
                                                       FirstLivestream.EndAt)
                                 THEN Capacity - 1 ELSE Capacity]
    /\ livestreams = {FirstLivestream}
    /\ livestream_tags = {[LivestreamID |-> FirstLivestream.ID, TagID |-> g] : g \in Tags}
    /\ nextId = FirstLivestream.ID + 1
    /\ livestreamModelByIdCache = CacheSet(EmptyCache, FirstLivestream.ID, FirstLivestream)
    /\ livestreamModelByUserIDCache =
           CacheSet(EmptyCache, FirstLivestream.UserID, <<FirstLivestream>>)
    /\ pc = [r \in Reqs |-> "idle"]
    /\ req = [r \in Reqs |-> NoReq]
    /\ slots = [r \in Reqs |-> {}]
    /\ txLocks = [r \in Reqs |-> {}]
    /\ livestreamModel = [r \in Reqs |-> NoModel]
    /\ txRow = [r \in Reqs |-> NoModel]
    /\ livestreamModelsByUserID = [r \in Reqs |-> <<>>]
    /\ result = [r \in Reqs |-> "none"]
    /\ touched = [r \in Reqs |-> FALSE]
    /\ decremented = [r \in Reqs |-> {}]
    /\ cacheWrites = [r \in Reqs |-> {}]
    /\ users = InitialUsers
    /\ themes = InitialThemes
    /\ tags = InitialTags
    /\ icons = EmptyCache
    /\ nextUserId = Cardinality(InitialUsers) + 1
    /\ userModelByIdCache = LoadUsersById(EmptyCache, InitialUsers)
    /\ userModelByNameCache = LoadUsersByName(EmptyCache, InitialUsers)
    /\ themeCache = EmptyCache
    /\ hashCache = EmptyCache
    /\ tagModelCache = LoadTags(EmptyCache, InitialTags)
    /\ livecomments = {}
    /\ ng_words = {}
    /\ nextLivecommentId = 1
    /\ h = [p \in Procs |-> Idle]
    /\ obs = <<>>

InitNext ==
    \E p \in Procs :
        \/ Initialize(p)
        \/ RunInitSh(p)
        \/ SelectTags(p)
        \/ SetTags(p)
        \/ SelectUsers(p)
        \/ SetUsers(p)
        \/ GetUserStatistics(p)
        \/ StatisticsRanking(p)
        \/ StatisticsGetLivestreams(p)
        \/ StatisticsTotals(p)
        \/ PostLivecomment(p)
        \/ CommentNgWords(p)
        \/ InsertComment(p)
        \/ CommentOwnerGet(p)
        \/ FillThemeGet(p)
        \/ FillThemeSelect(p)
        \/ FillThemeSet(p)
        \/ FillHashGet(p)
        \/ FillIconRead(p)
        \/ FillHashSet(p)
        \/ CommentLivestreamGet(p)
        \/ CommentLivestreamOwnerGet(p)
        \/ CommentTagsSelect(p)
        \/ CommentTagsGet(p)

\* Initialization and the handlers that read the livestream caches.
InitSpec == ServingInit /\ [][InitNext]_vars

\* The caches hold every persisted row of the five fronted families.
CachesComplete ==
    /\ \A g \in tags : CacheHas(tagModelCache, g.ID)
    /\ \A u \in users : /\ CacheHas(userModelByIdCache, u.ID)
                        /\ CacheHas(userModelByNameCache, u.Name)
    /\ \A l \in livestreams : /\ CacheHas(livestreamModelByIdCache, l.ID)
                              /\ l.ID \in OwnerCacheIds(l.UserID)

\* C17: when an initialization has returned 200 and no handler is running,
\* every persisted tag, user and livestream row has its entries in the tag,
\* user-by-id, user-by-name, livestream-by-id and livestreams-by-owner caches.
CompleteAfterInitialize ==
    ((\E p \in Procs : h[p].op = "initialize" /\ h[p].pc = "done" /\ h[p].res = 200)
        /\ \A q \in Procs : Free(q))
    => CachesComplete

\* C18: no handler answers with an error after a cache miss on an entity
\* that was persisted at the time of the miss, no initialization running.
MissIsNotAnError ==
    \A p \in Procs :
        (h[p].pc = "done" /\ h[p].missed # "" /\ h[p].res >= 400) => ~h[p].existed

\* The register transaction that wrote user model u is still open.
InFlight(u) == \E p \in Procs : RegisterTxOpen(p) /\ h[p].user = u

\* A postIcon request for the user has stored the file and not yet deleted
\* the hash entry.
IconChanging(userID) ==
    \E p \in Procs : /\ h[p].op = "postIcon"
                     /\ h[p].pc \in {"GetUser", "HashDelete"}
                     /\ h[p].user.ID = userID

\* C15: a present entry of the icon-hash cache for a user equals the SHA-256
\* of that user's stored icon, or of the fallback image when there is none,
\* whenever no postIcon request for the user is between storing the file and
\* deleting the entry.
HashCacheMatchesIcon ==
    \A n \in DOMAIN hashCache :
        CacheHas(userModelByNameCache, n) =>
            LET userID == CacheGet(userModelByNameCache, n).ID
            IN  ~IconChanging(userID) =>
                    CacheGet(hashCache, n) = Sha256(IconOrFallback(userID))

\* C16: outside an open register transaction, every entry of the user-by-id
\* and user-by-name caches is a committed users row, and the user a
\* successful login authenticated is a committed users row.
CachedUsersAreCommitted ==
    /\ \A i \in DOMAIN userModelByIdCache :
          LET u == CacheGet(userModelByIdCache, i) IN u \in users \/ InFlight(u)
    /\ \A n \in DOMAIN userModelByNameCache :
          LET u == CacheGet(userModelByNameCache, n) IN u \in users \/ InFlight(u)
    /\ \A p \in Procs :
          (h[p].op = "login" /\ h[p].pc = "done" /\ h[p].res = 200) =>
              (h[p].user \in users \/ InFlight(h[p].user))

\* ================================================================== bulk load
MaxLoads == 2

\* Table snapshots the bulk load may read: ids are unique in both tables and
\* users.name is unique.
TagRows  == [ID : 1..(NumTags + 1), Name : Names]
UserRows == [ID : UserIds, Name : Names, HashedPassword : {Bcrypt(w) : w \in Passwords}]
TagSnapshots  == {s \in SUBSET TagRows : \A a \in s : \A b \in s : a.ID = b.ID => a = b}
UserSnapshots == {s \in SUBSET UserRows :
                     \A a \in s : \A b \in s : (a.ID = b.ID \/ a.Name = b.Name) => a = b}

\* What the caller of the loads has seen: how often each load ran and what
\* All() returned after the first run.
NoLoads == [tagLoads |-> 0, userLoads |-> 0, tagsAll |-> <<>>, usersByIdAll |-> <<>>,
            usersByNameAll |-> <<>>]

\* After initCaches and init.sh: empty caches, any snapshot in the tables.
LoadInit ==
    /\ ReserveInit
    /\ tags \in TagSnapshots
    /\ users \in UserSnapshots
    /\ themes = {[UserID |-> u.ID, DarkMode |-> FALSE] : u \in users}
    /\ icons = EmptyCache
    /\ nextUserId = MaxUserId + 1
    /\ userModelByIdCache = EmptyCache
    /\ userModelByNameCache = EmptyCache
    /\ themeCache = EmptyCache
    /\ hashCache = EmptyCache
    /\ tagModelCache = EmptyCache
    /\ livecomments = {}
    /\ ng_words = {}
    /\ nextLivecommentId = 1
    /\ h = [p \in Procs |-> Idle]
    /\ obs = NoLoads

\* The tag loop of initializeHandler over the tags table, then All().
BulkLoadTags ==
    /\ obs.tagLoads < MaxLoads
    /\ tagModelCache' = LoadTags(tagModelCache, tags)
    /\ obs' = [obs EXCEPT !.tagLoads = @ + 1,
                          !.tagsAll = IF obs.tagLoads = 0 THEN CacheAll(tagModelCache')
                                                          ELSE @]
    /\ UNCHANGED <<reserveVars, commentVars, users, themes, tags, icons, nextUserId,
                   userModelByIdCache, userModelByNameCache, themeCache, hashCache, h>>

\* The user loop of initializeHandler over the users table, then All().
BulkLoadUsers ==
    /\ obs.userLoads < MaxLoads
    /\ userModelByIdCache' = LoadUsersById(userModelByIdCache, users)
    /\ userModelByNameCache' = LoadUsersByName(userModelByNameCache, users)
    /\ obs' = [obs EXCEPT !.userLoads = @ + 1,
                          !.usersByIdAll = IF obs.userLoads = 0
                                           THEN CacheAll(userModelByIdCache') ELSE @,
                          !.usersByNameAll = IF obs.userLoads = 0
                                             THEN CacheAll(userModelByNameCache') ELSE @]
    /\ UNCHANGED <<reserveVars, commentVars, users, themes, tags, icons, nextUserId,
                   themeCache, hashCache, tagModelCache, h>>

LoadNext == BulkLoadTags \/ BulkLoadUsers

\* The bulk loads of initializeHandler run repeatedly on one snapshot.
LoadSpec == LoadInit /\ [][LoadNext]_vars

Range(s) == {s[i] : i \in 1..Len(s)}
\* Two results of All() hold the same values, each as often.
SameValues(a, b) == Len(a) = Len(b) /\ Range(a) = Range(b)
\* A result of All() holds exactly the rows, each once.
ExactlyRows(a, rows) == Range(a) = rows /\ Len(a) = Cardinality(rows)

\* C19: once a bulk load has run, however often it is run again on the same
\* snapshot, All() returns the values it returned after the first run - the
\* rows of the snapshot, each once.
IdempotentBulkLoad ==
    /\ obs.tagLoads >= 1 =>
          /\ SameValues(CacheAll(tagModelCache), obs.tagsAll)
          /\ ExactlyRows(CacheAll(tagModelCache), tags)
    /\ obs.userLoads >= 1 =>
          /\ SameValues(CacheAll(userModelByIdCache), obs.usersByIdAll)
          /\ SameValues(CacheAll(userModelByNameCache), obs.usersByNameAll)
          /\ ExactlyRows(CacheAll(userModelByIdCache), users)
          /\ ExactlyRows(CacheAll(userModelByNameCache), users)

IdempotentBulkLoadWitness ==
    /\ obs.tagLoads = 2 /\ Cardinality(tags) = 2
    /\ obs.userLoads = 2 /\ Cardinality(users) = 2

\* ================================================== sequential cache semantics
\* The values the icon-hash cache can hold.
HashValues == {Sha256(i) : i \in Images \cup {FallbackImage}}

\* The result of a Get that found nothing.
Absent == <<>>

\* What a sequential caller has seen: its last call with its result, the
\* results Get had for every key before that call, and for every key the value
\* it wrote last (Absent after Delete or Init).
NoCall == [op |-> "none", key |-> 0, found |-> FALSE, got |-> <<>>, all |-> <<>>,
           before |-> [n \in Names |-> Absent],
           last |-> [n \in Names |-> Absent]]

\* The result of Get for every key.
GetResults(c) == [n \in Names |-> IF CacheHas(c, n) THEN CacheGet(c, n) ELSE Absent]

CacheInit ==
    /\ ReserveInit
    /\ users = InitialUsers
    /\ themes = InitialThemes
    /\ tags = InitialTags
    /\ icons = EmptyCache
    /\ nextUserId = Cardinality(InitialUsers) + 1
    /\ userModelByIdCache = LoadUsersById(EmptyCache, InitialUsers)
    /\ userModelByNameCache = LoadUsersByName(EmptyCache, InitialUsers)
    /\ themeCache = EmptyCache
    /\ hashCache = EmptyCache
    /\ tagModelCache = LoadTags(EmptyCache, InitialTags)
    /\ livecomments = {}
    /\ ng_words = {}
    /\ nextLivecommentId = 1
    /\ h = [p \in Procs |-> Idle]
    /\ obs = NoCall

\* hashCache.Set(name, hash)
CallSet ==
    /\ \E n \in Names, v \in HashValues :
          /\ hashCache' = CacheSet(hashCache, n, v)
          /\ obs' = [NoCall EXCEPT !.op = "Set", !.key = n,
                                   !.before = GetResults(hashCache),
                                   !.last = [obs.last EXCEPT ![n] = v]]
    /\ UNCHANGED <<reserveVars, commentVars, users, themes, tags, icons, nextUserId,
                   userModelByIdCache, userModelByNameCache, themeCache, tagModelCache, h>>

\* hashCache.Get(name)
CallGet ==
    /\ \E n \in Names :
          obs' = [NoCall EXCEPT !.op = "Get", !.key = n,
                                !.found = CacheHas(hashCache, n),
                                !.got = IF CacheHas(hashCache, n)
                                        THEN CacheGet(hashCache, n) ELSE <<>>,
                                !.last = obs.last]
    /\ UNCHANGED <<reserveVars, commentVars, users, themes, tags, icons, nextUserId,
                   userModelByIdCache, userModelByNameCache, themeCache, hashCache,
                   tagModelCache, h>>

\* hashCache.Delete(name)
CallDelete ==
    /\ \E n \in Names :
          /\ hashCache' = CacheDelete(hashCache, n)
          /\ obs' = [NoCall EXCEPT !.op = "Delete", !.key = n,
                                   !.before = GetResults(hashCache),
                                   !.last = [obs.last EXCEPT ![n] = Absent]]
    /\ UNCHANGED <<reserveVars, commentVars, users, themes, tags, icons, nextUserId,
                   userModelByIdCache, userModelByNameCache, themeCache, tagModelCache, h>>

\* initCaches()
CallInit ==
    /\ initCaches
    /\ obs' = [NoCall EXCEPT !.op = "Init", !.before = GetResults(hashCache)]
    /\ UNCHANGED <<reserveVars, livestreams, livecomments, ng_words, nextLivecommentId,
                   users, themes, tags, icons, nextUserId, h>>

\* hashCache.All()
CallAll ==
    /\ obs' = [NoCall EXCEPT !.op = "All", !.all = CacheAll(hashCache), !.last = obs.last]
    /\ UNCHANGED <<reserveVars, commentVars, users, themes, tags, icons, nextUserId,
                   userModelByIdCache, userModelByNameCache, themeCache, hashCache,
                   tagModelCache, h>>

CacheNext == CallSet \/ CallGet \/ CallDelete \/ CallInit \/ CallAll

\* One caller using the cache operations in any order.
CacheSpec == CacheInit /\ [][CacheNext]_vars

\* The values the caller wrote last and did not delete.
LastWritten == {obs.last[n] : n \in {m \in Names : obs.last[m] # Absent}}

Checked(r) == pc[r] = "Checking" /\ pc'[r] # "Checking"

\* C22: a validated request is turned down with Overbooked, and no row is
\* written, exactly when fewer than one of the slots in its range has capacity
\* left, the case of a range that selects no slot row included; the only other
\* outcome of the count is a storage fault of the count statement over the
\* selected rows.
OverbookedExactlyWhenNoCapacity ==
    [][\A r \in Reqs : Checked(r) =>
          LET n == CountAvailable(SlotsInRange(req[r].StartAt, req[r].EndAt))
          IN  /\ result'[r] = "Overbooked" => (n < 1 /\ dbVars' = dbVars)
              /\ n < 1 => \/ result'[r] = "Overbooked"
                          \/ /\ result'[r] = "StorageFailure"
                             /\ SlotsInRange(req[r].StartAt, req[r].EndAt) # {}
              /\ n >= 1 => result'[r] # "Overbooked"]_vars

\* The transaction of request r was committed.
Committed(r) == decremented[r] # {}

\* The rows of livestream_tags that belong to request r's livestream.
TagRowsOf(r) == {g \in livestream_tags : g.LivestreamID = txRow[r].ID}

\* C23: the decrement, the livestreams insert and the livestream_tags inserts
\* of one request persist together or not at all: a request whose transaction
\* did not commit (a statement or the commit failed) has decreased no slot and
\* left no livestreams row and no tag row, and a committed one has all three.
AllOrNothing ==
    /\ \A r \in Reqs :
          IF Committed(r)
          THEN /\ txRow[r] \in livestreams
               /\ TagRowsOf(r) = {[LivestreamID |-> txRow[r].ID, TagID |-> t] :
                                      t \in req[r].Tags}
               /\ decremented[r] = SlotsInRange(req[r].StartAt, req[r].EndAt)
          ELSE /\ txRow[r] \notin livestreams
               /\ txRow[r] # NoModel => TagRowsOf(r) = {}
    /\ \A s \in SlotIds :
          slot[s] = Capacity - Cardinality({r \in Reqs : s \in decremented[r]})

\* C23 witness: a request with tags failed after its insert and its cache
\* writes (at the tag insert or at the commit) while another one committed.
AllOrNothingWitness ==
    \E r \in Reqs : \E o \in Reqs \ {r} :
        /\ Done(r) /\ Faulted(r) /\ ~Committed(r)
        /\ txRow[r] # NoModel /\ req[r].Tags # {}
        /\ "livestreams-by-owner" \in cacheWrites[r]
        /\ Committed(o) /\ req[o].Tags # {}

\* C24: every accepted request has created one livestreams row of its own,
\* with an id no other row has, the caller as owner and the requested times;
\* there are exactly as many rows as committed requests, so an identical
\* request that is accepted again adds a second row.
OneRowPerCommit ==
    /\ Cardinality(livestreams) = Cardinality({r \in Reqs : Committed(r)})
    /\ \A m \in livestreams : \A n \in livestreams : m.ID = n.ID => m = n
    /\ \A r \in Reqs : Accepted(r) =>
          /\ Committed(r)
          /\ txRow[r] \in livestreams
          /\ txRow[r].UserID = req[r].UserID
          /\ txRow[r].StartAt = req[r].StartAt /\ txRow[r].EndAt = req[r].EndAt
          /\ \A o \in Reqs \ {r} : txRow[o].ID # txRow[r].ID

\* C24 witness: two identical requests were both accepted and their rows
\* differ.
OneRowPerCommitWitness ==
    \E r \in Reqs : \E o \in Reqs \ {r} :
        /\ Accepted(r) /\ Accepted(o) /\ req[r] = req[o]
        /\ txRow[r] # txRow[o]
        /\ {txRow[r], txRow[o]} \subseteq livestreams

\* C25: the commit of a request lowers by exactly one every slot with
\* start_at >= request.start_at and end_at <= request.end_at and leaves every
\* other slot's capacity as it was.
DecrementExactlyRange ==
    [][\A r \in Reqs : (pc[r] = "Committing" /\ pc'[r] = "Filling") =>
          \A s \in SlotIds :
              slot'[s] = IF /\ SlotStartAt(s) >= req[r].StartAt
                            /\ SlotEndAt(s) <= req[r].EndAt
                         THEN slot[s] - 1
                         ELSE slot[s]]_vars

\* C25 witness: an accepted request lowered one slot, and a slot outside its
\* range still has its full capacity.
DecrementExactlyRangeWitness ==
    \E r \in Reqs :
        /\ Accepted(r) /\ Cardinality(decremented[r]) = 1
        /\ \A s \in decremented[r] : slot[s] = Capacity - 1
        /\ \E s \in SlotIds \ decremented[r] : slot[s] = Capacity

\* C26: a request whose locking statement (the SELECT ... FOR UPDATE or the
\* UPDATE) fails while it waits returns a failure; with that step every lock it
\* held is released, and it has changed no slot capacity, no livestreams row
\* and no cache entry.
LockWaitFailureIsClean ==
    [][\A r \in Reqs : (pc[r] \in {"Locking", "Updating"} /\ pc'[r] = "done") =>
          /\ result'[r] = "StorageFailure"
          /\ txLocks'[r] = {}
          /\ dbVars' = dbVars /\ cacheVars' = cacheVars
          /\ decremented'[r] = {} /\ cacheWrites'[r] = {}
          /\ txRow'[r] = NoModel]_vars

\* C26 witness: a request failed between its count and its insert while
\* another request's transaction holds a row of its range; it holds no lock.
LockWaitFailureIsCleanWitness ==
    \E r \in Reqs : \E o \in Reqs \ {r} :
        /\ Done(r) /\ Faulted(r)
        /\ livestreamModel[r] # NoModel /\ txRow[r] = NoModel
        /\ Cardinality(SlotsInRange(req[r].StartAt, req[r].EndAt)) > 1
        /\ txLocks[o] # {}
        /\ txLocks[o] \subseteq SlotsInRange(req[r].StartAt, req[r].EndAt)
        /\ txLocks[r] = {}

\* Two issued requests whose ranges select no common slot row.
Disjoint(r, o) ==
    /\ pc[r] # "idle" /\ pc[o] # "idle"
    /\ SlotsInRange(req[r].StartAt, req[r].EndAt)
         \cap SlotsInRange(req[o].StartAt, req[o].EndAt) = {}

\* Neither of two disjoint requests ever holds a lock on a row of the other's
\* range, so neither waits for the other.
DisjointNeverBlock ==
    \A r \in Reqs : \A o \in Reqs \ {r} :
        Disjoint(r, o) => SlotsInRange(req[r].StartAt, req[r].EndAt) \cap txLocks[o] = {}

\* What running two accepted disjoint requests one after the other leaves in
\* the database: their two rows and one decrement per selected slot.
DisjointSequentialRows ==
    \A r \in Reqs : \A o \in Reqs \ {r} :
        (Disjoint(r, o) /\ Accepted(r) /\ Accepted(o)) =>
            /\ livestreams = {txRow[r], txRow[o]}
            /\ \A s \in SlotIds :
                  slot[s] = IF Covers(r, s) \/ Covers(o, s) THEN Capacity - 1 ELSE Capacity

\* C27: two concurrent requests whose ranges select disjoint sets of slots
\* never wait for each other, and when both are accepted the database and the
\* two livestream caches are as after running them in one order or the other.
DisjointRequestsIndependent ==
    /\ DisjointNeverBlock
    /\ DisjointSequentialRows
    /\ \A r \in Reqs : \A o \in Reqs \ {r} :
          (Disjoint(r, o) /\ Accepted(r) /\ Accepted(o)) =>
              /\ CacheHas(livestreamModelByIdCache, txRow[r].ID)
              /\ CacheGet(livestreamModelByIdCache, txRow[r].ID) = txRow[r]
              /\ txRow[r].ID \in OwnerCacheIds(req[r].UserID)

\* ================================================ initialization under traffic
\* A reservation of the first slot by the first user, without tags.
ResetRequest(r) ==
    /\ Request(r)
    /\ req'[r] = [UserID |-> 1, StartAt |-> TermStartAt, EndAt |-> TermStartAt + 1,
                  Tags |-> {}]

\* The process that calls POST /api/initialize, and the one that registers.
Initializer == CHOOSE p \in Procs : \A q \in Procs : p <= q
Registrant  == CHOOSE p \in Procs : \A q \in Procs : p >= q
Reserver    == CHOOSE r \in Reqs : \A q \in Reqs : r <= q

\* One reservation, one registration and the initialization run side by side:
\* echo serves every request on its own goroutine and initializeHandler takes
\* no lock against the other handlers.
ResetNext ==
    \/ \E r \in {Reserver} :
          \/ ResetRequest(r)
          \/ Validate(r)
          \/ SelectForUpdate(r)
          \/ CountQuery(r)
          \/ BeginTx(r)
          \/ UpdateSlots(r)
          \/ InsertLivestream(r)
          \/ CacheSetById(r)
          \/ CacheGetByUser(r)
          \/ CacheSetByUser(r)
          \/ InsertTags(r)
          \/ Commit(r)
          \/ FillResponse(r)
    \/ \E p \in {Initializer} :
          \/ Initialize(p)
          \/ RunInitSh(p)
          \/ SelectTags(p)
          \/ SetTags(p)
          \/ SelectUsers(p)
          \/ SetUsers(p)
    \/ \E p \in {Registrant} :
          \/ Register(p)
          \/ InsertUser(p)
          \/ RegisterCacheById(p)
          \/ RegisterCacheByName(p)
          \/ InsertTheme(p)
          \/ RegisterThemeDelete(p)
          \/ RegisterCommit(p)
          \/ FillThemeGet(p)
          \/ FillThemeSelect(p)
          \/ FillThemeSet(p)
          \/ FillHashGet(p)
          \/ FillIconRead(p)
          \/ FillHashSet(p)

ResetSpec == Init /\ [][ResetNext]_vars

\* This step is the commit of request r's decrement.
DecrementStep(r) ==
    /\ pc[r] = "Committing" /\ pc'[r] = "Filling"
    /\ slot' = [s \in SlotIds |-> IF Covers(r, s) THEN slot[s] - 1 ELSE slot[s]]

\* This step is the database reset of an initialization.
ResetStep ==
    \E p \in Procs : /\ h[p].op = "initialize" /\ h[p].pc = "InitSh"
                     /\ h'[p].pc = "SelectTags"

\* C28 as stated: the slot rows are the same in every state, capacities change
\* only in Reserve's decrement step, and no step changes or removes a
\* livestreams row that exists.
CalendarAndLedgerFrame ==
    /\ [](DOMAIN slot = SlotIds)
    /\ [][/\ slot' # slot => \E r \in Reqs : DecrementStep(r)
          /\ \A m \in livestreams : m \in livestreams']_vars

\* C28: the slot rows are the same in every state; capacities change only in
\* Reserve's decrement step and in the database reset of initializeHandler,
\* and only that reset changes or removes a livestreams row that exists.
CalendarAndLedgerFrameButReset ==
    /\ [](DOMAIN slot = SlotIds)
    /\ [][/\ slot' # slot => (ResetStep \/ \E r \in Reqs : DecrementStep(r))
          /\ (\E m \in livestreams : m \notin livestreams') => ResetStep]_vars

\* C28 witness: an initialization has removed the row of a committed
\* reservation and given the slot its capacity back.
CalendarAndLedgerFrameWitness ==
    \E r \in Reqs :
        /\ Accepted(r) /\ Committed(r)
        /\ txRow[r] \notin livestreams
        /\ \A s \in decremented[r] : slot[s] = Capacity

\* Request r was answered 201 and the by-id cache holds its livestream.
ReservedAndCached(r) ==
    /\ Done(r) /\ Accepted(r)
    /\ CacheHas(livestreamModelByIdCache, txRow[r].ID)
    /\ CacheGet(livestreamModelByIdCache, txRow[r].ID) = txRow[r]

\* Process p's register request was answered 201 and the by-id cache holds
\* its user.
RegisteredAndCached(p) ==
    /\ h[p].op = "register" /\ h[p].pc = "done" /\ h[p].res = 201
    /\ CacheHas(userModelByIdCache, h[p].user.ID)
    /\ CacheGet(userModelByIdCache, h[p].user.ID) = h[p].user

\* The cache entries that the bulk load and the successfully answered
\* requests wrote are persisted rows.
CachesSound ==
    /\ \A i \in DOMAIN tagModelCache : CacheGet(tagModelCache, i) \in tags
    /\ \A r \in Reqs : ReservedAndCached(r) => txRow[r] \in livestreams
    /\ \A p \in Procs : RegisteredAndCached(p) => h[p].user \in users

\* C29: at the moment initializeHandler returns 200, every cache entry
\* corresponds to a row of the re-initialized database, whatever register,
\* reserve and response assembly did between its cache reset, its database
\* reset and its bulk load; checked for the entries of the bulk load and of
\* the requests that were answered 201.
SoundWhenInitializeReturns ==
    [][\A p \in Procs :
          (h[p].op = "initialize" /\ h[p].pc # "done"
             /\ h'[p].pc = "done" /\ h'[p].res = 200)
          => CachesSound']_vars

\* ================================================================ moderation
\* The NG words a moderate request may carry: one that the comment text
\* contains and one that it does not.
Words == {<<1>>, <<2>>}

\* The variables moderateHandler leaves alone before its commit.
moderateFrame == <<reserveVars, livestreams, cacheVars, livecomments, ng_words,
                   nextLivecommentId, users, themes, tags, icons, nextUserId,
                   userModelByIdCache, userModelByNameCache, themeCache, hashCache,
                   tagModelCache, obs>>

\* POST /api/livestream/:livestream_id/moderate up to dbConn.BeginTxx; the
\* caller is the session's user, the livestream is named by its id.
Moderate(p) ==
    /\ Free(p)
    /\ \E userID \in UserIds, livestreamID \in LivestreamIds, word \in Words :
          LET start == [Idle EXCEPT !.op = "moderate", !.word = word,
                                    !.user = [NoUser EXCEPT !.ID = userID],
                                    !.livestream = [NoModel EXCEPT !.ID = livestreamID]]
          IN  \/ h' = [h EXCEPT ![p] = [start EXCEPT !.pc = "ModerateGet"]]
              \/ h' = [h EXCEPT ![p] = Returned(start, 500)]
    /\ UNCHANGED moderateFrame

\* _, ok := livestreamModelByIdCache.Get(int64(livestreamID)); 400 unless ok.
ModerateGet(p) ==
    /\ h[p].op = "moderate" /\ h[p].pc = "ModerateGet"
    /\ IF CacheHas(livestreamModelByIdCache, h[p].livestream.ID)
       THEN Goto(p, "InsertNgWord")
       ELSE Finish(p, 400)
    /\ UNCHANGED moderateFrame

\* INSERT INTO ng_words inside tx, LastInsertId; the row stays uncommitted.
InsertNgWord(p) ==
    /\ h[p].op = "moderate" /\ h[p].pc = "InsertNgWord"
    /\ \/ Goto(p, "SelectNgWords")
       \/ Finish(p, 500)
    /\ UNCHANGED moderateFrame

\* The ng_words row of process p's request.
NgWordOf(p) ==
    [UserID |-> h[p].user.ID, LivestreamID |-> h[p].livestream.ID, Word |-> h[p].word]

\* SELECT * FROM ng_words WHERE livestream_id = ? inside tx: the committed
\* rows of the livestream and the transaction's own row.
SelectNgWords(p) ==
    /\ h[p].op = "moderate" /\ h[p].pc = "SelectNgWords"
    /\ \/ h' = [h EXCEPT ![p] = [@ EXCEPT !.pc = "DeleteComments", !.ngwords =
                  {w.Word : w \in {x \in ng_words \cup {NgWordOf(p)} :
                                       x.LivestreamID = h[p].livestream.ID}}]]
       \/ Finish(p, 500)
    /\ UNCHANGED moderateFrame

\* DELETE FROM livecomments WHERE livestream_id = ? AND (comment LIKE '%w%'
\* OR ...) inside tx: the rows it deletes stay until the commit.
DeleteComments(p) ==
    /\ h[p].op = "moderate" /\ h[p].pc = "DeleteComments"
    /\ \/ h' = [h EXCEPT ![p] = [@ EXCEPT !.pc = "ModerateCommit", !.deleted =
                  {c \in livecomments :
                       /\ c.LivestreamID = h[p].livestream.ID
                       /\ \E w \in h[p].ngwords : Contains(c.Comment, w)}]]
       \/ Finish(p, 500)
    /\ UNCHANGED moderateFrame

\* tx.Commit(), then 201 with the word id.
ModerateCommit(p) ==
    /\ h[p].op = "moderate" /\ h[p].pc = "ModerateCommit"
    /\ \/ /\ ng_words' = ng_words \cup {NgWordOf(p)}
          /\ livecomments' = livecomments \ h[p].deleted
          /\ Finish(p, 201)
       \/ /\ Finish(p, 500)
          /\ UNCHANGED <<ng_words, livecomments>>
    /\ UNCHANGED <<reserveVars, livestreams, cacheVars, nextLivecommentId, users, themes,
                   tags, icons, nextUserId, userModelByIdCache, userModelByNameCache,
                   themeCache, hashCache, tagModelCache, obs>>

ModerateNext ==
    \E p \in Procs :
        \/ Moderate(p)
        \/ ModerateGet(p)
        \/ InsertNgWord(p)
        \/ SelectNgWords(p)
        \/ DeleteComments(p)
        \/ ModerateCommit(p)
        \/ PostLivecomment(p)
        \/ CommentNgWords(p)
        \/ InsertComment(p)
        \/ CommentOwnerGet(p)
        \/ FillThemeGet(p)
        \/ FillThemeSelect(p)
        \/ FillThemeSet(p)
        \/ FillHashGet(p)
        \/ FillIconRead(p)
        \/ FillHashSet(p)
        \/ CommentLivestreamGet(p)
        \/ CommentLivestreamOwnerGet(p)
        \/ CommentTagsSelect(p)
        \/ CommentTagsGet(p)

\* Moderation and posting of livecomments on a service that holds one
\* accepted reservation.
ModerateSpec == ServingInit /\ [][ModerateNext]_vars

\* The owner of the livestream with the given id, as persisted.
OwnerOf(livestreamID) == {l.UserID : l \in {x \in livestreams : x.ID = livestreamID}}

\* C30: an NG word is registered, and livecomments are deleted, only by a
\* moderate request of the livestream's owner: every ng_words row carries the
\* owner of its livestream as user, and every step that removes a livecomment
\* is the commit of a moderate request whose caller owns the livestream.
OnlyOwnerModerates ==
    /\ [](\A w \in ng_words : w.UserID \in OwnerOf(w.LivestreamID))
    /\ [][(\E c \in livecomments : c \notin livecomments') =>
            \E p \in Procs : /\ h[p].op = "moderate" /\ h[p].pc = "ModerateCommit"
                             /\ h[p].user.ID \in OwnerOf(h[p].livestream.ID)]_vars

\* ================================================================ GET /api/tag
\* The variables getTagHandler leaves alone.
tagFrame == <<reserveVars, commentVars, users, themes, tags, icons, nextUserId,
              userModelByIdCache, userModelByNameCache, themeCache, hashCache,
              tagModelCache, obs>>

\* The zero value of TagModel.
NoTag == [ID |-> 0, Name |-> 0]

\* tagModels := tagModelCache.All(); tags := make([]*Tag, len(tagModels)).
\* snap remembers the cache as it was at the call.
GetTag(p) ==
    /\ Free(p)
    /\ h' = [h EXCEPT ![p] = [Idle EXCEPT !.op = "getTag", !.pc = "TagLoop",
                                         !.all = CacheAll(tagModelCache),
                                         !.snap = tagModelCache]]
    /\ UNCHANGED tagFrame

\* Variant of the loop body over a live view: element i is read from the
\* cache at the time of the iteration.
GetTagLoopLive(p) ==
    /\ h[p].op = "getTag" /\ h[p].pc = "TagLoop"
    /\ Len(h[p].tagList) < Len(h[p].all)
    /\ LET i == Len(h[p].tagList) + 1
           live == CacheAll(tagModelCache)
           tagModel == IF i <= Len(live) THEN live[i] ELSE NoTag
       IN  h' = [h EXCEPT ![p] = [@ EXCEPT !.tagList =
                    Append(@, [ID |-> tagModel.ID, Name |-> tagModel.Name])]]
    /\ UNCHANGED tagFrame

\* for i := range tagModels { tags[i] = &Tag{ID: ..., Name: ...} }, one
\* iteration.
GetTagLoop(p) ==
    /\ h[p].op = "getTag" /\ h[p].pc = "TagLoop"
    /\ Len(h[p].tagList) < Len(h[p].all)
    /\ LET i == Len(h[p].tagList) + 1
           tagModel == h[p].all[i]
       IN  h' = [h EXCEPT ![p] = [@ EXCEPT !.tagList =
                    Append(@, [ID |-> tagModel.ID, Name |-> tagModel.Name])]]
    /\ UNCHANGED tagFrame

\* return c.JSON(http.StatusOK, &TagsResponse{Tags: tags})
GetTagReturn(p) ==
    /\ h[p].op = "getTag" /\ h[p].pc = "TagLoop"
    /\ Len(h[p].tagList) = Len(h[p].all)
    /\ Finish(p, 200)
    /\ UNCHANGED tagFrame

TagNext ==
    \E p \in Procs :
        \/ GetTag(p)
        \/ GetTagLoop(p)
        \/ GetTagReturn(p)
        \/ Initialize(p)
        \/ RunInitSh(p)
        \/ SelectTags(p)
        \/ SetTags(p)
        \/ SelectUsers(p)
        \/ SetUsers(p)

\* The tag list served while initializations empty and reload the cache.
TagSpec == Init /\ [][TagNext]_vars

NoCommentContainsNgWord ==
    \A w \in ng_words :
        w.UserID \in OwnerOf(w.LivestreamID) =>
            \A c \in livecomments :
                c.LivestreamID = w.LivestreamID => ~Contains(c.Comment, w.Word)

\* --------------------------------------------------- GET /api/user/:username/theme
streamerThemeFrame ==
    UNCHANGED <<reserveVars, commentVars, users, themes, tags, icons, nextUserId,
                userModelByIdCache, userModelByNameCache, hashCache, tagModelCache, obs>>

\* userModelByNameCache.Get(username); a miss answers 404.
GetStreamerTheme(p) ==
    /\ Free(p)
    /\ \E username \in Names :
          LET start == [Idle EXCEPT !.op = "getStreamerTheme", !.name = username]
          IN  IF CacheHas(userModelByNameCache, username)
              THEN h' = [h EXCEPT ![p] = [start EXCEPT !.pc = "StreamerThemeGet",
                            !.user = CacheGet(userModelByNameCache, username)]]
              ELSE h' = [h EXCEPT ![p] = Returned(start, 404)]
    /\ UNCHANGED themeCache
    /\ streamerThemeFrame

\* themeCache.Get(username); a hit is the response.
StreamerThemeGet(p) ==
    /\ h[p].op = "getStreamerTheme" /\ h[p].pc = "StreamerThemeGet"
    /\ IF CacheHas(themeCache, h[p].name)
       THEN h' = [h EXCEPT ![p] = [Returned(h[p], 200) EXCEPT
                     !.theme = CacheGet(themeCache, h[p].name)]]
       ELSE Goto(p, "StreamerThemeSelect")
    /\ UNCHANGED themeCache
    /\ streamerThemeFrame

\* The SELECT reading the themes row register's open transaction has inserted.
StreamerThemeSelectUncommitted(p) ==
    /\ h[p].op = "getStreamerTheme" /\ h[p].pc = "StreamerThemeSelect"
    /\ h' = [h EXCEPT ![p] = [@ EXCEPT !.pc = "StreamerThemeSet",
               !.theme = [UserID |-> h[p].user.ID, DarkMode |-> FALSE]]]
    /\ UNCHANGED themeCache
    /\ streamerThemeFrame

\* SELECT * FROM themes WHERE user_id = ? with userModel.ID; no row is an
\* error as well.
StreamerThemeSelect(p) ==
    /\ h[p].op = "getStreamerTheme" /\ h[p].pc = "StreamerThemeSelect"
    /\ \/ \E themeModel \in themes :
             /\ themeModel.UserID = h[p].user.ID
             /\ h' = [h EXCEPT ![p] = [@ EXCEPT !.pc = "StreamerThemeSet",
                        !.theme = themeModel]]
       \/ Finish(p, 500)
    /\ UNCHANGED themeCache
    /\ streamerThemeFrame

\* themeCache.Set(username, theme), then the response.
StreamerThemeSet(p) ==
    /\ h[p].op = "getStreamerTheme" /\ h[p].pc = "StreamerThemeSet"
    /\ themeCache' = CacheSet(themeCache, h[p].name, h[p].theme)
    /\ h' = [h EXCEPT ![p] = [Returned(h[p], 200) EXCEPT !.theme = h[p].theme]]
    /\ streamerThemeFrame

ThemeNext ==
    \E p \in Procs :
        \/ Register(p)
        \/ InsertUser(p)
        \/ RegisterCacheById(p)
        \/ RegisterCacheByName(p)
        \/ InsertTheme(p)
        \/ RegisterThemeDelete(p)
        \/ RegisterCommit(p)
        \/ GetMe(p)
        \/ FillThemeGet(p)
        \/ FillThemeSelect(p)
        \/ FillThemeSet(p)
        \/ FillHashGet(p)
        \/ FillIconRead(p)
        \/ FillHashSet(p)
        \/ BulkThemeGet(p)
        \/ BulkThemeSelect(p)
        \/ BulkThemeSet(p)
        \/ BulkHashGet(p)
        \/ BulkIconRead(p)
        \/ BulkHashBegin(p)
        \/ BulkHashEnd(p)
        \/ BulkHashSet(p)
        \/ GetStreamerTheme(p)
        \/ StreamerThemeGet(p)
        \/ StreamerThemeSelect(p)
        \/ StreamerThemeSet(p)

\* The handlers that read or write themeCache, serving requests after a
\* completed initialization.
ThemeSpec == Init /\ [][ThemeNext]_vars

\* C32: with no initialization running, every themeCache entry is keyed by the
\* name of a committed user and holds that user's committed themes row.
ThemeCacheEqualsCommittedRow ==
    \A n \in DOMAIN themeCache :
        \E u \in users :
            /\ u.Name = n
            /\ CacheGet(themeCache, n) \in themes
            /\ CacheGet(themeCache, n).UserID = u.ID

\* getStreamerThemeHandler answered 200 for a name whose registration answered
\* 500 after its commit, fillUserResponse having failed before its Set: the
\* entry of that name is in the cache.
ThemeCacheEqualsCommittedRowWitness ==
    \E p, q \in Procs :
        /\ h[p].op = "getStreamerTheme" /\ h[p].res = 200
        /\ h[q].op = "register" /\ h[q].res = 500
        /\ h[q].user = h[p].user
        /\ h[p].user \in users
        /\ CacheHas(themeCache, h[p].user.Name)


\* --------------------------------------------- fillUserResponseBulk: iconHashMap
\* C33: the goroutines that fillUserResponseBulk spawns to hash icons are
\* never two at a time inside their write to the shared iconHashMap.
NoConcurrentMapWrite ==
    \A p \in Procs : Cardinality(h[p].writing) <= 1

====
